---- MODULE Spec2Model ----
(***************************************************************************)
(* Verification model of sqlx-clickhouse.                                  *)
(*                                                                         *)
(* Part 1: the advisory-lock guard (advisory_lock.rs).  A connection uses   *)
(*   ClickHouseAdvisoryLock / ClickHouseAdvisoryLockGuard against a server *)
(*   on which another session takes and gives back the same locks.         *)
(*   The type parameter C of the guard is instantiated with a              *)
(*   mutable borrow (&mut ClickHouseConnection, or &mut of an enclosing    *)
(*   guard), so the live guards of a connection form a stack whose top is  *)
(*   the only usable handle.  Every async fn is split at its await point:  *)
(*   send, server execution, and return / failure / cancellation.          *)
(*                                                                         *)
(* Part 2: the NUMERIC codec (types/bigdecimal.rs).                        *)
(***************************************************************************)
EXTENDS Integers, Sequences, FiniteSets, TLC

VARIABLES
    held,           \* server: [conn -> [key -> hold count]] of session-level locks
    wire,           \* [conn -> Seq(request)] written to the socket, not yet executed
    outbuf,         \* [conn -> Seq(query)] queued on the connection, not yet flushed
    inflight,       \* [conn -> the async call in progress on the connection]
    guards,         \* Seq(ClickHouseAdvisoryLockGuard), in order of construction
    wrap,           \* [conn -> Seq(guard index)] live guards wrapping conn, top last
    ret,            \* [conn -> what the last finished call returned]
    warnings,       \* number of tracing::warn! records written by release_now
    release_query,  \* [key -> the lock's OnceCell<String>]
    nOps,           \* number of async calls started so far
    unl,            \* history: [conn -> [key -> unlocks issued for a lock of that key]]
    acq,            \* history: [conn -> [key -> acquisitions that returned a guard]]
    npc,            \* numeric codec: "idle", "input", "encoded" or "decoded"
    dec,            \* the BigDecimal given to the encoder (exp is an offset from edge)
    num,            \* Result<ClickHouseNumeric>: TryFrom<&BigDecimal>
    back,           \* Result<BigDecimal>: TryFrom<&ClickHouseNumeric> of num
    rpc,            \* range codec: "idle", "value", "wire", "decoded" or "reencoded"
    rval,           \* the ClickHouseRange<i32> given to the encoder
    rwire,          \* the wire value: format, declared type kind, bytes (or text)
    rres,           \* Result<ClickHouseRange<i32>>: Decode::decode of rwire
    rwire2,         \* what encode_by_ref writes for the decoded range
    tpc,            \* type identity: "idle", "types", "names", "compared" or "named"
    ta,             \* the left operand: a ClickHouseType, or a name
    tb,             \* the right operand
    tres,           \* the results of ==, type_eq and name_eq, in both orders
    cpc,            \* scalar codecs: "idle", "value", "wire", "encoded" or "decoded"
    cval,           \* the Rust value given to Encode, tagged with its type
    cwire,          \* the ClickHouseValueRef given to Decode
    cres,           \* Result<T>: Decode::decode of cwire
    transaction_depth, \* ClickHouseConnection::inner.transaction_depth
    txlog,          \* statements handed to the connection, in order
    bpc,            \* begin(): "idle", "waiting" (at its await) or "returned"
    bd,             \* transaction_depth when the last begin() was called
    bret,           \* how the last begin() ended: "none", "Ok", "Err" or "dropped"
    bq,             \* statements queued by the last begin(), its guard included
    txOps,          \* number of transaction calls started so far
    dkey,           \* concurrent drops: the key of the lock the guards belong to
    once,           \* that lock's release_query: once_cell::sync::OnceCell<String>
    computed,       \* history: how often the closure of get_or_init has run
    dpc,            \* [thread -> where its drop() stands]
    dgot,           \* [thread -> what get_release_query() returned to it]
    dqueue,         \* [thread -> Seq(query)] queued on the thread's connection
    drops           \* [thread -> guards it has dropped]

lockVars == <<held, wire, outbuf, inflight, guards, wrap, ret, warnings,
              release_query, nOps, unl, acq>>

numVars == <<npc, dec, num, back>>

rangeVars == <<rpc, rval, rwire, rres, rwire2>>

\* What the advisory-lock actions leave alone, and what the codec actions do.
typeVars == <<tpc, ta, tb, tres>>

codecVars == <<cpc, cval, cwire, cres>>

txVars == <<transaction_depth, txlog, bpc, bd, bret, bq, txOps>>

dropVars == <<dkey, once, computed, dpc, dgot, dqueue, drops>>

nonLockVars == <<dropVars, numVars, rangeVars, typeVars, codecVars, txVars>>
nonNumVars == <<dropVars, lockVars, rangeVars, typeVars, codecVars, txVars>>
nonRangeVars == <<dropVars, lockVars, numVars, typeVars, codecVars, txVars>>
nonTypeVars == <<dropVars, lockVars, numVars, rangeVars, codecVars, txVars>>
nonCodecVars == <<dropVars, lockVars, numVars, rangeVars, typeVars, txVars>>
nonTxVars == <<lockVars, numVars, rangeVars, typeVars, codecVars, dropVars>>
nonDropVars == <<lockVars, numVars, rangeVars, typeVars, codecVars, txVars>>

vars == <<lockVars, numVars, rangeVars, typeVars, codecVars, txVars, dropVars>>

----------------------------------------------------------------------------
(* Bounds                                                                  *)

MaxOps == 3

----------------------------------------------------------------------------
(* Part 1: advisory locks                                                  *)

None == "None"

\* The connection driven through this API, and another session of the server.
Conns == {"c1"}
Others == {"other"}
Sessions == Conns \cup Others

BigInt(k) == <<"BigInt", k>>
IntPair(k1, k2) == <<"IntPair", k1, k2>>

\* One ClickHouseAdvisoryLock per key, one key in each of the two key spaces.
Keys == {BigInt(1), IntPair(1, 2)}

\* The bind parameters of the prepared-statement calls.
KeyArgs(key) ==
    IF key[1] = "BigInt" THEN <<key[2]>> ELSE <<key[2], key[3]>>

\* The server resolves the overload by the number of arguments.
ArgsKey(args) ==
    IF Len(args) = 1 THEN BigInt(args[1]) ELSE IntPair(args[1], args[2])

Request(fn, args, awaited) == [fn |-> fn, args |-> args, awaited |-> awaited]

\* (mutant) acquire sends the non-blocking call and ignores its answer.
AcquireRequestTry(key) == Request("pg_try_advisory_lock", KeyArgs(key), TRUE)

AcquireRequest(key) == Request("pg_advisory_lock", KeyArgs(key), TRUE)

TryAcquireRequest(key) == Request("pg_try_advisory_lock", KeyArgs(key), TRUE)

ForceReleaseRequest(key) == Request("pg_advisory_unlock", KeyArgs(key), TRUE)

\* (mutant) the pair's keys are formatted in the wrong order.
FormatReleaseQuerySwapped(key) ==
    IF key[1] = "BigInt"
    THEN [text |-> "SELECT pg_advisory_unlock", args |-> <<key[2]>>]
    ELSE [text |-> "SELECT pg_advisory_unlock", args |-> <<key[3], key[2]>>]

\* format!("SELECT pg_advisory_unlock({key})") / ({key1}, {key2})
FormatReleaseQuery(key) ==
    IF key[1] = "BigInt"
    THEN [text |-> "SELECT pg_advisory_unlock", args |-> <<key[2]>>]
    ELSE [text |-> "SELECT pg_advisory_unlock", args |-> <<key[2], key[3]>>]

\* OnceCell::get_or_init: the stored string if there is one, else the closure's.
\* The cell is <<>> while unset and <<string>> once set.
GetReleaseQuery(cell, key) ==
    IF cell # <<>> THEN cell[1] ELSE FormatReleaseQuery(key)

\* queue_simple_query: append to the connection's outbound buffer, send nothing.
QueueSimpleQuery(buf, query) == Append(buf, query)

\* A queued simple query as the server receives it once flushed.
SimpleRequest(query) ==
    Request(IF query.text = "SELECT pg_advisory_unlock"
            THEN "pg_advisory_unlock" ELSE "unknown", query.args, FALSE)

RECURSIVE Flushed(_)
Flushed(buf) ==
    IF buf = <<>> THEN <<>> ELSE <<SimpleRequest(Head(buf))>> \o Flushed(Tail(buf))

\* Using the connection writes the queued queries first, then the request.
WriteRequest(w, buf, req) == (w \o Flushed(buf)) \o <<req>>

Idle == [op |-> "idle", lock |-> None, guard |-> 0, phase |-> "none", resp |-> None]

Call(op, key, g) == [op |-> op, lock |-> key, guard |-> g, phase |-> "sent", resp |-> None]

\* A finished call: how it ended (via: "Return", "Err" or "Cancelled"), its
\* Result, the Either of try_acquire, the connection or guard handed back, and
\* the server's answer it read.
NoRet == [op |-> "none", via |-> "none", result |-> "none", either |-> "none",
          conn |-> None, guard |-> 0, resp |-> None]

\* ClickHouseAdvisoryLockGuard::new
\* (st, issued, takes, granted are history: the guard's life cycle, the unlocks
\* issued for it, its slot's Some -> None moves, the answer it was built on.)
NewGuard(key, c, granted) ==
    [lock |-> key, conn |-> c, st |-> "Acquired", issued |-> 0, takes |-> 0,
     granted |-> granted]

\* (mutant) the slot is read, not taken.
SlotNotTaken(slot) == slot

\* Option::take: the slot afterwards.
SlotAfterTake(slot) == None

\* History: 1 if taking from slot moves it from Some to None.
Taken(slot) == IF slot # None /\ SlotAfterTake(slot) = None THEN 1 ELSE 0

\* (mutant) drop queues the unlock without looking at the slot.
DropQueuesAlways(slot) == TRUE

\* (mutant) drop queues the unlock when the slot was taken before.
DropQueuesIfTaken(slot) == slot = None

\* Drop::drop: `if let Some(mut conn) = self.conn.take()`.
DropQueues(slot) == slot # None

\* Drop::drop on guard record g with outbound buffer buf and release-query cell.
GuardDrop(g, buf, cell) ==
    IF DropQueues(g.conn)
    THEN [g    |-> [g EXCEPT !.conn = SlotAfterTake(g.conn),
                             !.takes = @ + Taken(g.conn),
                             !.issued = @ + 1],
          buf  |-> QueueSimpleQuery(buf, GetReleaseQuery(cell, g.lock)),
          cell |-> <<GetReleaseQuery(cell, g.lock)>>,
          n    |-> 1]
    ELSE [g |-> g, buf |-> buf, cell |-> cell, n |-> 0]

Top(c) == wrap[c][Len(wrap[c])]

Pop(s) == SubSeq(s, 1, Len(s) - 1)

InitLock ==
    /\ held = [c \in Sessions |-> [k \in Keys |-> 0]]
    /\ wire = [c \in Conns |-> <<>>]
    /\ outbuf = [c \in Conns |-> <<>>]
    /\ inflight = [c \in Conns |-> Idle]
    /\ guards = <<>>
    /\ wrap = [c \in Conns |-> <<>>]
    /\ ret = [c \in Conns |-> NoRet]
    /\ warnings = 0
    /\ release_query = [k \in Keys |-> <<>>]
    /\ nOps = 0
    /\ unl = [c \in Conns |-> [k \in Keys |-> 0]]
    /\ acq = [c \in Conns |-> [k \in Keys |-> 0]]

\* The caller may start a call on conn c: it holds the top handle and no call is
\* in progress on it.
CanCall(c) == inflight[c].op = "idle" /\ nOps < MaxOps

\* acquire(), up to the await of execute().
AcquireSend(c, k) ==
    /\ CanCall(c)
    /\ wire' = [wire EXCEPT ![c] = WriteRequest(@, outbuf[c], AcquireRequest(k))]
    /\ outbuf' = [outbuf EXCEPT ![c] = <<>>]
    /\ inflight' = [inflight EXCEPT ![c] = Call("acquire", k, 0)]
    /\ nOps' = nOps + 1
    /\ UNCHANGED <<held, guards, wrap, ret, warnings, release_query, unl, acq, nonLockVars>>

\* try_acquire(), up to the await of fetch_one().
TryAcquireSend(c, k) ==
    /\ CanCall(c)
    /\ wire' = [wire EXCEPT ![c] = WriteRequest(@, outbuf[c], TryAcquireRequest(k))]
    /\ outbuf' = [outbuf EXCEPT ![c] = <<>>]
    /\ inflight' = [inflight EXCEPT ![c] = Call("try_acquire", k, 0)]
    /\ nOps' = nOps + 1
    /\ UNCHANGED <<held, guards, wrap, ret, warnings, release_query, unl, acq, nonLockVars>>

\* force_release() called by the user on the top handle, up to the await.
ForceReleaseSend(c, k) ==
    /\ CanCall(c)
    /\ wire' = [wire EXCEPT ![c] = WriteRequest(@, outbuf[c], ForceReleaseRequest(k))]
    /\ outbuf' = [outbuf EXCEPT ![c] = <<>>]
    /\ inflight' = [inflight EXCEPT ![c] = Call("force_release", k, 0)]
    /\ nOps' = nOps + 1
    /\ unl' = [unl EXCEPT ![c][k] = @ + 1]
    /\ UNCHANGED <<held, guards, wrap, ret, warnings, release_query, acq, nonLockVars>>

\* release_now(self), up to the await: self.conn.take().expect(NONE_ERR) is
\* handed to force_release, which writes the unlock request.
ReleaseNowSend(c) ==
    /\ CanCall(c)
    /\ wrap[c] # <<>>
    /\ LET g == Top(c) IN
        /\ guards[g].conn # None
        /\ guards' = [guards EXCEPT ![g].conn = SlotAfterTake(@),
                                    ![g].takes = @ + Taken(guards[g].conn),
                                    ![g].issued = @ + 1,
                                    ![g].st = "Releasing"]
        /\ wire' = [wire EXCEPT ![c] =
                       WriteRequest(@, outbuf[c], ForceReleaseRequest(guards[g].lock))]
        /\ outbuf' = [outbuf EXCEPT ![c] = <<>>]
        /\ inflight' = [inflight EXCEPT ![c] = Call("release_now", guards[g].lock, g)]
        /\ unl' = [unl EXCEPT ![c][guards[g].lock] = @ + 1]
    /\ wrap' = [wrap EXCEPT ![c] = Pop(@)]
    /\ nOps' = nOps + 1
    /\ UNCHANGED <<held, ret, warnings, release_query, acq, nonLockVars>>

HoldOf(c, key) == IF key \in Keys THEN held[c][key] ELSE 0

HeldElsewhere(c, key) == \E d \in Sessions \ {c} : HoldOf(d, key) > 0

\* What the server answers to request r of session c.
ServerResult(c, r) ==
    CASE r.fn = "pg_advisory_lock"     -> TRUE
      [] r.fn = "pg_try_advisory_lock" -> ~HeldElsewhere(c, ArgsKey(r.args))
      [] r.fn = "pg_advisory_unlock"   -> HoldOf(c, ArgsKey(r.args)) > 0
      [] OTHER                         -> FALSE

\* The change of session c's hold count that executing r makes.
ServerDelta(c, r) ==
    CASE r.fn = "pg_advisory_lock"     -> 1
      [] r.fn = "pg_try_advisory_lock" ->
            IF HeldElsewhere(c, ArgsKey(r.args)) THEN 0 ELSE 1
      [] r.fn = "pg_advisory_unlock"   ->
            IF HoldOf(c, ArgsKey(r.args)) > 0 THEN -1 ELSE 0
      [] OTHER                         -> 0

\* The server executes the next request of session c.  pg_advisory_lock waits
\* until no other session holds the key; a session may lock a key it already
\* holds, and each unlock undoes one lock.
ServerExec(c) ==
    /\ wire[c] # <<>>
    /\ LET r == Head(wire[c])
           key == ArgsKey(r.args)
       IN /\ r.fn = "pg_advisory_lock" => ~HeldElsewhere(c, key)
          /\ held' = IF key \in Keys
                     THEN [held EXCEPT ![c][key] = @ + ServerDelta(c, r)]
                     ELSE held
          /\ inflight' = IF r.awaited
                         THEN [inflight EXCEPT ![c].phase = "answered",
                                               ![c].resp = ServerResult(c, r)]
                         ELSE inflight
    /\ wire' = [wire EXCEPT ![c] = Tail(@)]
    /\ UNCHANGED <<outbuf, guards, wrap, ret, warnings, release_query, nOps, unl, acq, nonLockVars>>

\* (mutant) try_acquire wraps the connection whatever the answer.
TryAcquireAlwaysLeft(locked) == "Left"

\* try_acquire: `if locked { Left(guard) } else { Right(conn) }`.
TryAcquireEither(locked) == IF locked THEN "Left" ELSE "Right"

\* (mutant) release_now reports a lock that was not held as an error.
ReleaseNowErrIfNotHeld(released) == IF released THEN "Ok" ELSE "Err"

\* release_now: Ok(conn) whatever `released` is.
ReleaseNowResult(released) == "Ok"

\* release_now: `if !released { tracing::warn!(..) }`.
ReleaseNowWarns(released) == ~released

\* The awaited round trip completes and the call returns.
Return(c) ==
    /\ inflight[c].phase = "answered"
    /\ LET f == inflight[c]
           builds == \/ f.op = "acquire"
                     \/ f.op = "try_acquire" /\ TryAcquireEither(f.resp) = "Left"
           g  == Len(guards) + 1
       IN /\ guards' =
               CASE builds -> Append(guards, NewGuard(f.lock, c, f.resp))
                 [] f.op = "release_now" ->
                      [guards EXCEPT ![f.guard] =
                          [GuardDrop(@, outbuf[c], release_query[f.lock]).g
                              EXCEPT !.st = "Released"]]
                 [] OTHER -> guards
          /\ wrap' = IF builds THEN [wrap EXCEPT ![c] = Append(@, g)] ELSE wrap
          /\ outbuf' =
               IF f.op = "release_now"
               THEN [outbuf EXCEPT ![c] =
                        GuardDrop(guards[f.guard], @, release_query[f.lock]).buf]
               ELSE outbuf
          /\ release_query' =
               IF f.op = "release_now"
               THEN [release_query EXCEPT ![f.lock] =
                        GuardDrop(guards[f.guard], outbuf[c], @).cell]
               ELSE release_query
          /\ unl' =
               IF f.op = "release_now"
               THEN [unl EXCEPT ![c][f.lock] =
                        @ + GuardDrop(guards[f.guard], outbuf[c], release_query[f.lock]).n]
               ELSE unl
          /\ acq' = IF builds THEN [acq EXCEPT ![c][f.lock] = @ + 1] ELSE acq
          /\ warnings' =
               IF f.op = "release_now" /\ ReleaseNowWarns(f.resp)
               THEN warnings + 1 ELSE warnings
          /\ ret' = [ret EXCEPT ![c] =
               CASE f.op = "acquire" ->
                      [NoRet EXCEPT !.op = f.op, !.via = "Return", !.result = "Ok",
                                    !.guard = g, !.resp = f.resp]
                 [] f.op = "try_acquire" ->
                      IF builds
                      THEN [NoRet EXCEPT !.op = f.op, !.via = "Return",
                                         !.result = "Ok", !.either = "Left",
                                         !.guard = g, !.resp = f.resp]
                      ELSE [NoRet EXCEPT !.op = f.op, !.via = "Return",
                                         !.result = "Ok", !.either = "Right",
                                         !.conn = c, !.resp = f.resp]
                 [] f.op = "force_release" ->
                      [NoRet EXCEPT !.op = f.op, !.via = "Return", !.result = "Ok",
                                    !.conn = c, !.resp = f.resp]
                 [] f.op = "release_now" ->
                      [NoRet EXCEPT !.op = f.op, !.via = "Return",
                                    !.resp = f.resp,
                                    !.result = ReleaseNowResult(f.resp),
                                    !.conn = IF ReleaseNowResult(f.resp) = "Ok"
                                             THEN c ELSE None,
                                    !.guard = f.guard]]
    /\ inflight' = [inflight EXCEPT ![c] = Idle]
    /\ UNCHANGED <<held, wire, nOps, nonLockVars>>

\* The request of the call in progress on c, if the server has not executed it
\* yet, is the last one written.  After the call is abandoned nobody awaits it;
\* if it never reached the server (delivered = FALSE) it is not executed either.
AbandonWire(w, phase, delivered) ==
    IF phase # "sent" THEN w
    ELSE IF delivered
         THEN [w EXCEPT ![Len(w)].awaited = FALSE]
         ELSE Pop(w)

\* The call in progress on c ends without its Ok value: `?` returns the error
\* of the round trip (how = "Err"), or the future is dropped by its caller
\* (how = "Cancelled").  acquire / try_acquire have built no guard; the guard
\* moved into release_now is dropped, its slot already taken.
Abandon(c, delivered, how) ==
    /\ inflight[c].op # "idle"
    /\ inflight[c].phase = "answered" => delivered
    /\ LET f == inflight[c]
           d == GuardDrop(guards[f.guard], outbuf[c], release_query[f.lock])
       IN /\ wire' = [wire EXCEPT ![c] = AbandonWire(@, f.phase, delivered)]
          /\ IF f.op = "release_now"
             THEN /\ guards' = [guards EXCEPT ![f.guard] =
                                   [d.g EXCEPT !.st = "Release" \o how]]
                  /\ outbuf' = [outbuf EXCEPT ![c] = d.buf]
                  /\ release_query' = [release_query EXCEPT ![f.lock] = d.cell]
                  /\ unl' = [unl EXCEPT ![c][f.lock] = @ + d.n]
             ELSE UNCHANGED <<guards, outbuf, release_query, unl>>
          /\ ret' = [ret EXCEPT ![c] =
                        [NoRet EXCEPT !.op = f.op, !.via = how, !.result = how,
                                      !.guard = f.guard]]
    /\ inflight' = [inflight EXCEPT ![c] = Idle]
    /\ UNCHANGED <<held, wrap, warnings, nOps, acq, nonLockVars>>

Fail(c, delivered) == Abandon(c, delivered, "Err")

Cancel(c, delivered) == Abandon(c, delivered, "Cancelled")

\* leak(self): self.conn.take().expect(NONE_ERR) is returned, then self is dropped.
Leak(c) ==
    /\ inflight[c].op = "idle"
    /\ wrap[c] # <<>>
    /\ LET g == Top(c)
           taken == [guards[g] EXCEPT !.conn = SlotAfterTake(@),
                                      !.takes = @ + Taken(guards[g].conn),
                                      !.st = "Leaked"]
           d == GuardDrop(taken, outbuf[c], release_query[taken.lock])
       IN /\ guards[g].conn # None
          /\ guards' = [guards EXCEPT ![g] = d.g]
          /\ outbuf' = [outbuf EXCEPT ![c] = d.buf]
          /\ release_query' = [release_query EXCEPT ![taken.lock] = d.cell]
          /\ unl' = [unl EXCEPT ![c][taken.lock] = @ + d.n]
          /\ ret' = [ret EXCEPT ![c] =
                        [NoRet EXCEPT !.op = "leak", !.via = "Return", !.result = "Ok",
                                      !.conn = guards[g].conn, !.guard = g]]
    /\ wrap' = [wrap EXCEPT ![c] = Pop(@)]
    /\ UNCHANGED <<held, wire, inflight, warnings, nOps, acq, nonLockVars>>

\* The guard on top of c goes out of scope: Drop::drop.
Drop(c) ==
    /\ inflight[c].op = "idle"
    /\ wrap[c] # <<>>
    /\ LET g == Top(c)
           d == GuardDrop(guards[g], outbuf[c], release_query[guards[g].lock])
       IN /\ guards' = [guards EXCEPT ![g] = [d.g EXCEPT !.st = "Dropped"]]
          /\ outbuf' = [outbuf EXCEPT ![c] = d.buf]
          /\ release_query' = [release_query EXCEPT ![guards[g].lock] = d.cell]
          /\ unl' = [unl EXCEPT ![c][guards[g].lock] = @ + d.n]
    /\ wrap' = [wrap EXCEPT ![c] = Pop(@)]
    /\ UNCHANGED <<held, wire, inflight, ret, warnings, nOps, acq, nonLockVars>>

\* Any other use of the connection (through DerefMut / AsMut of the top handle,
\* or its return to the pool) flushes what is queued.
UseConn(c) ==
    /\ inflight[c].op = "idle"
    /\ outbuf[c] # <<>>
    /\ wire' = [wire EXCEPT ![c] = @ \o Flushed(outbuf[c])]
    /\ outbuf' = [outbuf EXCEPT ![c] = <<>>]
    /\ UNCHANGED <<held, inflight, guards, wrap, ret, warnings, release_query,
                   nOps, unl, acq, nonLockVars>>

\* Another session takes a free lock, or gives back the one it holds.
OtherLock(s, k) ==
    /\ held[s][k] = 0
    /\ ~HeldElsewhere(s, k)
    /\ held' = [held EXCEPT ![s][k] = 1]
    /\ UNCHANGED <<wire, outbuf, inflight, guards, wrap, ret, warnings,
                   release_query, nOps, unl, acq, nonLockVars>>

OtherUnlock(s, k) ==
    /\ held[s][k] > 0
    /\ held' = [held EXCEPT ![s][k] = @ - 1]
    /\ UNCHANGED <<wire, outbuf, inflight, guards, wrap, ret, warnings,
                   release_query, nOps, unl, acq, nonLockVars>>

NextLock ==
    \/ \E s \in Others, k \in Keys : OtherLock(s, k)
    \/ \E s \in Others, k \in Keys : OtherUnlock(s, k)
    \/ \E c \in Conns, k \in Keys : AcquireSend(c, k)
    \/ \E c \in Conns, k \in Keys : TryAcquireSend(c, k)
    \/ \E c \in Conns, k \in Keys : ForceReleaseSend(c, k)
    \/ \E c \in Conns : ReleaseNowSend(c)
    \/ \E c \in Conns : ServerExec(c)
    \/ \E c \in Conns : Return(c)
    \/ \E c \in Conns, delivered \in BOOLEAN : Fail(c, delivered)
    \/ \E c \in Conns, delivered \in BOOLEAN : Cancel(c, delivered)
    \/ \E c \in Conns : Leak(c)
    \/ \E c \in Conns : Drop(c)
    \/ \E c \in Conns : UseConn(c)

----------------------------------------------------------------------------
(* Part 2: the NUMERIC codec (types/bigdecimal.rs)                         *)
(*                                                                         *)
(* A BigInt is its sign and its magnitude as Vec of base-10 digits, most   *)
(* significant first, as to_radix_be(10) returns it (zero is NoSign, [0]). *)
(* A BigDecimal is a BigInt and the exponent (its scale): the value is     *)
(* int * 10^(-exp).                                                        *)

I16Min == -32768
I16Max == 32767

FitsI16(x) == I16Min <= x /\ x <= I16Max

\* Rust's `/` on integers truncates toward zero (TLA+'s \div rounds down).
TruncDiv(a, b) == IF a >= 0 THEN a \div b ELSE -((-a) \div b)

\* i64::rem_euclid with a positive modulus.
RemEuclid(a, b) == a % b

RECURSIVE Pow10(_)
\* 10i16.pow(n)
Pow10(n) == IF n = 0 THEN 1 ELSE 10 * Pow10(n - 1)

RECURSIVE Base10To10000(_)
\* |chunk| chunk.iter().fold(0i16, |a, &d| a * 10 + d as i16)
Base10To10000(chunk) ==
    IF chunk = <<>> THEN 0
    ELSE Base10To10000(SubSeq(chunk, 1, Len(chunk) - 1)) * 10 + chunk[Len(chunk)]

RECURSIVE Chunks4NoPad(_)
\* (mutant) the last, short chunk is not scaled up to four digits.
Chunks4NoPad(rest) ==
    IF rest = <<>> THEN <<>>
    ELSE IF Len(rest) <= 4
         THEN <<Base10To10000(rest)>>
         ELSE <<Base10To10000(SubSeq(rest, 1, 4))>>
                  \o Chunks4NoPad(SubSeq(rest, 5, Len(rest)))

RECURSIVE Chunks4(_)
\* rest.chunks(4).map(|chunk| base_10_to_10000(chunk) * 10i16.pow(4 - chunk.len()))
Chunks4(rest) ==
    IF rest = <<>> THEN <<>>
    ELSE IF Len(rest) <= 4
         THEN <<Base10To10000(rest) * Pow10(4 - Len(rest))>>
         ELSE <<Base10To10000(SubSeq(rest, 1, 4))>>
                  \o Chunks4(SubSeq(rest, 5, Len(rest)))

RECURSIVE TrimTrailingZeros(_)
\* while let Some(&0) = digits.last() { digits.pop(); }
TrimTrailingZeros(digits) ==
    IF digits # <<>> /\ digits[Len(digits)] = 0
    THEN TrimTrailingZeros(SubSeq(digits, 1, Len(digits) - 1))
    ELSE digits

\* (mutant) only Plus is mapped to Positive.
SignToPgPlusOnly(sign) == IF sign = "Plus" THEN "Positive" ELSE "Negative"

\* sign_to_pg
SignToPg(sign) == IF sign = "Minus" THEN "Negative" ELSE "Positive"

NumericErr == [kind |-> "Err", sign |-> "none", scale |-> 0, weight |-> 0,
               digits |-> <<>>]

\* The conversion did not return: an arithmetic-overflow panic unwound it.
NumericPanic == [kind |-> "Panic", sign |-> "none", scale |-> 0, weight |-> 0,
                 digits |-> <<>>]

Number(sign, scale, weight, digits) ==
    [kind |-> "Number", sign |-> sign, scale |-> scale, weight |-> weight,
     digits |-> digits]

\* weight_10 = base_10_len - exp
Weight10(base_10, exp) == Len(base_10) - exp

\* cmp::max(0, exp), before the conversion to i16
EncodeScale(exp) == IF exp > 0 THEN exp ELSE 0

\* (mutant) without the off-by-one fix: four digits get weight 1.
EncodeWeightNoFix(weight_10) ==
    IF weight_10 <= 0
    THEN TruncDiv(weight_10, 4) - 1
    ELSE TruncDiv(weight_10, 4)

\* The weight, before the conversion to i16.
EncodeWeight(weight_10) ==
    IF weight_10 <= 0
    THEN TruncDiv(weight_10, 4) - 1
    ELSE TruncDiv(weight_10 - 1, 4)

\* The big-digits before trailing zeros are removed.
EncodeDigits(base_10, offset) ==
    LET first == IF offset <= Len(base_10)
                 THEN (IF offset > 0
                       THEN <<Base10To10000(SubSeq(base_10, 1, offset))>>
                       ELSE <<>>)
                 ELSE <<Base10To10000(base_10) * Pow10(offset - Len(base_10))>>
        rest  == IF offset <= Len(base_10)
                 THEN Chunks4(SubSeq(base_10, offset + 1, Len(base_10)))
                 ELSE <<>>
    IN first \o rest

\* (mutant) trailing zero big-digits are kept.
EncodeNoTrim(digits) == digits

\* The trimming applied to the big-digits.
EncodeTrim(digits) == TrimTrailingZeros(digits)

\* An i64 is written as an offset from an edge: "Zero" is 0, "I64Min" is
\* -2^63 and "I64Max" is 2^63 - 1; offsets are small, so a value on "I64Min"
\* or "I64Max" is far outside the i16 range, and so is a quarter of it.
I64(edge, off) == [edge |-> edge, off |-> off]

\* `base_10_len - exp` on i64: whether the subtraction overflows, and its
\* value (the two's-complement wrapped one if it does).
\*   len - (2^63 - 1 + off) = -2^63 + (1 + len - off)
\*   len - (-2^63 + off)    = (2^63 - 1) + (1 + len - off), which exceeds
\*   i64::MAX iff 1 + len - off > 0, and then wraps to -2^63 + (len - off).
Weight10I64(base_10, exp) ==
    CASE exp.edge = "Zero"   -> [overflow |-> FALSE, val |-> I64("Zero", Weight10(base_10, exp.off))]
      [] exp.edge = "I64Max" -> [overflow |-> FALSE, val |-> I64("I64Min", 1 + Len(base_10) - exp.off)]
      [] exp.edge = "I64Min" ->
            IF 1 + Len(base_10) - exp.off > 0
            THEN [overflow |-> TRUE,  val |-> I64("I64Min", Len(base_10) - exp.off)]
            ELSE [overflow |-> FALSE, val |-> I64("I64Max", 1 + Len(base_10) - exp.off)]

\* cmp::max(0, exp).try_into::<i16>() succeeds
ScaleFitsI16(exp) ==
    CASE exp.edge = "Zero"   -> FitsI16(EncodeScale(exp.off))
      [] exp.edge = "I64Min" -> TRUE
      [] exp.edge = "I64Max" -> FALSE

\* The weight's try_into::<i16>() succeeds
WeightFitsI16(weight_10) ==
    weight_10.edge = "Zero" /\ FitsI16(EncodeWeight(weight_10.off))

\* TryFrom<&BigDecimal> for ClickHouseNumeric.  overflow_checks is the build:
\* with them (debug) an overflowing `-` panics, without (release) it wraps.
Encode(d, overflow_checks) ==
    LET base_10   == d.int.digits
        exp       == I64(d.edge, d.exp)
        sub       == Weight10I64(base_10, exp)
        weight_10 == sub.val
    IN IF sub.overflow /\ overflow_checks THEN NumericPanic
       ELSE IF ~ScaleFitsI16(exp) THEN NumericErr
       ELSE IF ~WeightFitsI16(weight_10) THEN NumericErr
       ELSE Number(SignToPg(d.int.sign),
                   IF exp.edge = "Zero" THEN EncodeScale(exp.off) ELSE 0,
                   EncodeWeight(weight_10.off),
                   EncodeTrim(EncodeDigits(base_10, RemEuclid(weight_10.off, 4))))

\* ClickHouseNumeric::is_valid_digit
IsValidDigit(digit) == 0 <= digit /\ digit < 10000

RECURSIVE Cents(_)
\* cents.push((digit / 100) as u8); cents.push((digit % 100) as u8);
Cents(digits) ==
    IF digits = <<>> THEN <<>>
    ELSE <<TruncDiv(Head(digits), 100), Head(digits) % 100>> \o Cents(Tail(digits))

RECURSIVE StripLeadingZeros(_)
StripLeadingZeros(ds) ==
    IF Len(ds) > 1 /\ Head(ds) = 0 THEN StripLeadingZeros(Tail(ds)) ELSE ds

RECURSIVE CentsToBase10(_)
CentsToBase10(cents) ==
    IF cents = <<>> THEN <<>>
    ELSE <<Head(cents) \div 10, Head(cents) % 10>> \o CentsToBase10(Tail(cents))

\* BigInt::from_radix_be(sign, &cents, 100): the magnitude in base 10, and
\* NoSign if it is zero.
FromRadixBe100(sign, cents) ==
    LET mag == StripLeadingZeros(CentsToBase10(cents))
    IN [sign |-> IF mag = <<0>> THEN "NoSign" ELSE sign, digits |-> mag]

DecimalErr == [kind |-> "Err", int |-> [sign |-> "NoSign", digits |-> <<0>>], exp |-> 0]

Decimal(int, exp) == [kind |-> "Ok", int |-> int, exp |-> exp]

\* (digits.len() as i64 - weight as i64 - 1) * 4
DecodeScale(n) == (Len(n.digits) - n.weight - 1) * 4

\* TryFrom<&ClickHouseNumeric> for BigDecimal
Decode(n) ==
    IF n.kind = "NotANumber" THEN DecimalErr
    ELSE IF n.digits = <<>>
    THEN Decimal([sign |-> "NoSign", digits |-> <<0>>], 0)
    ELSE IF \E i \in 1..Len(n.digits) : ~IsValidDigit(n.digits[i]) THEN DecimalErr
    ELSE Decimal(FromRadixBe100(IF n.sign = "Positive" THEN "Plus" ELSE "Minus",
                                Cents(n.digits)),
                 DecodeScale(n))

----------------------------------------------------------------------------
(* Inputs of the codec                                                     *)

MaxLen == 4
MaxExp == 5

\* The decimal digits the mantissas are written with.
DigitChoices == {0, 1, 9}

RECURSIVE DigitSeqs(_)
DigitSeqs(n) ==
    IF n = 0 THEN {<<>>}
    ELSE {<<>>} \cup {Append(q, x) : q \in DigitSeqs(n - 1), x \in DigitChoices}

\* Magnitudes as to_radix_be(10) writes them: no leading zero, zero is [0].
Mantissas ==
    {q \in DigitSeqs(MaxLen) : q # <<>> /\ (Len(q) > 1 => q[1] # 0)}
        \cup {<<1, 2>>, <<1, 2, 3, 4, 5, 6, 7, 8, 9, 0>>, <<1, 0, 0, 0, 0>>}

\* Exponents: a window around 0 and the edges of the wire's 16-bit fields.
Exps == (-MaxExp..MaxExp) \cup {I16Max, I16Max + 1, -4 * I16Max - 3, -4 * I16Max - 4}

\* BigInt never carries a sign on zero ("-0" parses to zero).
BigInts ==
    {[sign |-> sg, digits |-> m] : sg \in {"Plus", "Minus"}, m \in Mantissas \ {<<0>>}}
        \cup {[sign |-> "NoSign", digits |-> <<0>>]}

\* Exponents at the edges of i64, as offsets from the edge.
MinEdgeOffs == 0..2
MaxEdgeOffs == {-1, 0}

BigDecimals ==
    {[int |-> i, edge |-> "Zero", exp |-> e] : i \in BigInts, e \in Exps}
        \cup {[int |-> i, edge |-> "I64Min", exp |-> e] : i \in BigInts, e \in MinEdgeOffs}
        \cup {[int |-> i, edge |-> "I64Max", exp |-> e] : i \in BigInts, e \in MaxEdgeOffs}

NoDecimal == [int |-> [sign |-> "NoSign", digits |-> <<0>>], edge |-> "Zero", exp |-> 0]

InitNum ==
    /\ npc = "input"
    /\ dec \in BigDecimals
    /\ num = NumericErr
    /\ back = DecimalErr

IdleNum ==
    /\ npc = "idle"
    /\ dec = NoDecimal
    /\ num = NumericErr
    /\ back = DecimalErr

\* ClickHouseNumeric::try_from(&decimal)
EncodeStep ==
    /\ npc = "input"
    /\ \E overflow_checks \in BOOLEAN : num' = Encode(dec, overflow_checks)
    /\ npc' = "encoded"
    /\ UNCHANGED <<dec, back, nonNumVars>>

\* BigDecimal::try_from(&numeric) on what the encoder returned
DecodeStep ==
    /\ npc = "encoded"
    /\ num.kind = "Number"
    /\ back' = Decode(num)
    /\ npc' = "decoded"
    /\ UNCHANGED <<dec, num, nonNumVars>>

NextNum == EncodeStep \/ DecodeStep


----------------------------------------------------------------------------
(* Claims about the NUMERIC codec                                          *)

RECURSIVE StripTrailingZeros(_, _)
\* m * 10^(-e) with the trailing zeros of m (base-10 digits) moved into e.
StripTrailingZeros(m, e) ==
    IF Len(m) > 1 /\ m[Len(m)] = 0
    THEN StripTrailingZeros(SubSeq(m, 1, Len(m) - 1), e - 1)
    ELSE [digits |-> m, exp |-> e]

IsZeroInt(i) == \A j \in 1..Len(i.digits) : i.digits[j] = 0

\* The number a BigDecimal denotes: two decimals are numerically equal iff
\* they have the same sign, and the same mantissa and exponent once the
\* mantissa carries no trailing zero.
ValueOf(i, e) ==
    IF IsZeroInt(i)
    THEN [sign |-> "Zero", digits |-> <<0>>, exp |-> 0]
    ELSE [sign   |-> i.sign,
          digits |-> StripTrailingZeros(StripLeadingZeros(i.digits), e).digits,
          exp    |-> StripTrailingZeros(StripLeadingZeros(i.digits), e).exp]

RECURSIVE BigDigitsBase10(_)
\* Each big-digit written as four decimal digits.
BigDigitsBase10(digits) ==
    IF digits = <<>> THEN <<>>
    ELSE LET x == Head(digits)
         IN <<x \div 1000, (x \div 100) % 10, (x \div 10) % 10, x % 10>>
                \o BigDigitsBase10(Tail(digits))

\* The sum of digits[i] * 10000^(weight - i), i from 0, as a number.
PositionalValue(n) ==
    IF n.digits = <<>>
    THEN ValueOf([sign |-> "Plus", digits |-> <<0>>], 0)
    ELSE ValueOf([sign |-> "Plus", digits |-> BigDigitsBase10(n.digits)],
                 4 * (Len(n.digits) - 1 - n.weight))

Encoded == npc \in {"encoded", "decoded"} /\ num.kind = "Number"

\* C2: whenever encoding a decimal succeeds, decoding the wire numeric
\* succeeds and gives a decimal numerically equal to the one encoded.
C2_RoundTrip ==
    npc = "decoded" =>
        /\ back.kind = "Ok"
        /\ ValueOf(back.int, back.exp) = ValueOf(dec.int, dec.exp)

\* C2 witness: a negative decimal with fractional digits, encoded into more
\* than one big-digit and decoded again.
C2_Witness ==
    /\ npc = "decoded"
    /\ dec.int.sign = "Minus"
    /\ dec.exp = 3
    /\ Len(dec.int.digits) = 4
    /\ Len(num.digits) = 2
    /\ back.exp = 4

\* C8 (as claimed): zero encodes to sign Positive, scale 0, weight 0 and no
\* digits whatever its representation, here "0" / "-0" (exponent 0) and "0.0"
\* (exponent 1).
C8_ZeroAsClaimed ==
    (npc = "encoded" /\ IsZeroInt(dec.int) /\ dec.edge = "Zero" /\ dec.exp \in {0, 1}) =>
        num = Number("Positive", 0, 0, <<>>)

\* C8 (amended): a zero mantissa with exponent e, whenever encoding succeeds,
\* encodes to sign Positive and no digits, with scale max(0, e); scale is 0
\* exactly for e <= 0 and weight is 0 exactly for -3 <= e <= 0, so exponent 0
\* ("0", "-0") gives scale 0 and weight 0 and exponent 1 ("0.0") gives scale 1
\* and weight -1.
C8_ZeroAmended ==
    (Encoded /\ IsZeroInt(dec.int)) =>
        /\ num.sign = "Positive"
        /\ num.digits = <<>>
        /\ num.scale = (IF dec.exp > 0 THEN dec.exp ELSE 0)
        /\ (num.weight = 0) <=> (-3 <= dec.exp /\ dec.exp <= 0)
        /\ dec.exp = 0 => num = Number("Positive", 0, 0, <<>>)
        /\ dec.exp = 1 => num = Number("Positive", 1, -1, <<>>)

\* C8 witness: the zero "0.0" (mantissa 0, exponent 1) has been encoded.
C8_Witness ==
    /\ npc = "encoded"
    /\ dec.int.digits = <<0>>
    /\ dec.exp = 1
    /\ num.digits = <<>>
    /\ num.scale = 1

\* C9: every wire numeric the encoder produces has no trailing zero big-digit
\* and only big-digits in 0..9999; 10000 encodes to digits [1] with weight 1.
C9_Normalized ==
    Encoded =>
        /\ num.digits # <<>> => num.digits[Len(num.digits)] # 0
        /\ \A i \in 1..Len(num.digits) : 0 <= num.digits[i] /\ num.digits[i] <= 9999
        /\ (dec.int = [sign |-> "Plus", digits |-> <<1, 0, 0, 0, 0>>] /\ dec.exp = 0)
              => num = Number("Positive", 0, 1, <<1>>)

\* C9 witness: 10000 has been encoded, to the single big-digit 1.
C9_Witness ==
    /\ npc = "encoded"
    /\ dec.int.digits = <<1, 0, 0, 0, 0>>
    /\ dec.exp = 0
    /\ num.digits = <<1>>

\* C10: for a non-zero decimal with mantissa digits d and exponent e that
\* encodes, scale = max(0, e), weight = weight_10/4 - 1 if weight_10 <= 0 and
\* (weight_10 - 1)/4 otherwise (weight_10 = len(d) - e, truncating division),
\* and the positional value of the big-digits is the decimal's absolute value;
\* 0.012 gives {Positive, 3, -1, [120]} and 12345.67890 gives
\* {Positive, 5, 1, [1, 2345, 6789]}.
C10_ScaleWeightDigits ==
    (Encoded /\ ~IsZeroInt(dec.int)) =>
        LET w10 == Len(dec.int.digits) - dec.exp IN
        /\ num.scale = (IF dec.exp > 0 THEN dec.exp ELSE 0)
        /\ num.weight = (IF w10 <= 0 THEN -((-w10) \div 4) - 1 ELSE (w10 - 1) \div 4)
        /\ PositionalValue(num) =
               ValueOf([sign |-> "Plus", digits |-> dec.int.digits], dec.exp)
        /\ (dec = [int |-> [sign |-> "Plus", digits |-> <<1, 2>>], edge |-> "Zero", exp |-> 3])
              => num = Number("Positive", 3, -1, <<120>>)
        /\ (dec = [int |-> [sign |-> "Plus",
                            digits |-> <<1, 2, 3, 4, 5, 6, 7, 8, 9, 0>>],
                   edge |-> "Zero", exp |-> 5])
              => num = Number("Positive", 5, 1, <<1, 2345, 6789>>)

\* C10 witness: 12345.67890 has been encoded.
C10_Witness ==
    /\ npc = "encoded"
    /\ dec = [int |-> [sign |-> "Plus", digits |-> <<1, 2, 3, 4, 5, 6, 7, 8, 9, 0>>],
              edge |-> "Zero", exp |-> 5]
    /\ num.kind = "Number"
    /\ num.digits = <<1, 2345, 6789>>

\* C11 (as claimed): for every decimal, exponents at the edges of i64
\* included, the conversion either succeeds with a scale and a weight that fit
\* i16 or returns a range error; it does not panic and no intermediate value
\* (weight_10 = base_10_len - exp) wraps.
C11_NoPanicNoWrap ==
    npc = "encoded" =>
        /\ num.kind \in {"Number", "Err"}
        /\ num.kind = "Number" => FitsI16(num.scale) /\ FitsI16(num.weight)
        /\ ~Weight10I64(dec.int.digits, I64(dec.edge, dec.exp)).overflow

\* C11 witness: a decimal whose exponent is i64::MIN has been converted.
C11_Witness ==
    /\ npc = "encoded"
    /\ dec.edge = "I64Min"
    /\ dec.exp = 0
    /\ dec.int.digits = <<1>>
    /\ num.kind = "Panic"

----------------------------------------------------------------------------
(* Part 3: the range codec (types/range.rs), with i32 elements             *)
(* (types/int.rs).  Bytes are 0..255, a text is the sequence of its code   *)
(* points (ASCII, so also its UTF-8 bytes).                                *)

\* RangeFlags
EMPTY == 1
LB_INC == 2
UB_INC == 4
LB_INF == 8
UB_INF == 16

\* flags.contains(bit)
Contains(flags, bit) == (flags \div bit) % 2 = 1

\* std::ops::Bound
Unbounded == [kind |-> "Unbounded", v |-> 0]
Included(x) == [kind |-> "Included", v |-> x]
Excluded(x) == [kind |-> "Excluded", v |-> x]

\* ClickHouseRange { start, end }
Range(start, end) == [start |-> start, end |-> end]

\* i32::to_be_bytes (two's complement, most significant byte first)
ToBeBytes(n) ==
    <<(n \div 16777216) % 256, (n \div 65536) % 256, (n \div 256) % 256, n % 256>>

RECURSIVE ReadUint(_)
\* The bytes as an unsigned big-endian number.
ReadUint(bytes) ==
    IF bytes = <<>> THEN 0
    ELSE ReadUint(SubSeq(bytes, 1, Len(bytes) - 1)) * 256 + bytes[Len(bytes)]

\* BigEndian::read_int(buf, buf.len()) / Buf::get_i32: the bytes as a
\* sign-extended big-endian number.
ReadInt(bytes) ==
    LET hi == IF bytes[1] >= 128 THEN bytes[1] - 256 ELSE bytes[1]
    IN ReadUint(<<0>> \o Tail(bytes)) + hi * (256 ^ (Len(bytes) - 1))

\* A decoded element, or the error of decoding it.
ElemOk(x) == [ok |-> TRUE, v |-> x]
ElemErr == [ok |-> FALSE, v |-> 0]

\* int_decode, binary: as_bytes()? (NULL is an error), 1..8 bytes, then
\* try_into::<i32>() (up to four bytes always fit).
IntDecodeBinary(value) ==
    IF value.null THEN ElemErr
    ELSE IF Len(value.bytes) = 0 \/ Len(value.bytes) >= 9 THEN ElemErr
    ELSE IF Len(value.bytes) > 4
              /\ \E i \in 1..(Len(value.bytes) - 4) :
                    value.bytes[i] # (IF value.bytes[Len(value.bytes) - 3] >= 128 THEN 255 ELSE 0)
         THEN ElemErr
    ELSE ElemOk(ReadInt(IF Len(value.bytes) > 4
                        THEN SubSeq(value.bytes, Len(value.bytes) - 3, Len(value.bytes))
                        ELSE value.bytes))

\* (mutant) a bound is always encoded with the flag of an inclusive one.
StartFlagsInclusive(start) == IF start.kind = "Unbounded" THEN LB_INF ELSE LB_INC

\* match self.start { Included => LB_INC, Unbounded => LB_INF, Excluded => empty }
StartFlags(start) ==
    CASE start.kind = "Included"  -> LB_INC
      [] start.kind = "Unbounded" -> LB_INF
      [] start.kind = "Excluded"  -> 0

\* match self.end { Included => UB_INC, Unbounded => UB_INF, Excluded => empty }
EndFlags(end) ==
    CASE end.kind = "Included"  -> UB_INC
      [] end.kind = "Unbounded" -> UB_INF
      [] end.kind = "Excluded"  -> 0

\* ClickHouseArgumentBuffer::encode: the element's bytes behind their length
\* as a 4-byte signed big-endian prefix.
BufEncode(buf, x) == buf \o ToBeBytes(Len(ToBeBytes(x))) \o ToBeBytes(x)

\* What encode_by_ref leaves: the bytes pushed and the IsNull it returns.
EncodeResult(bytes) == [bytes |-> bytes, is_null |-> "No"]

\* Encode for ClickHouseRange::encode_by_ref.  The two flag sets are
\* disjoint, so `|=` adds them.
RangeEncode(r) ==
    LET flags == StartFlags(r.start) + EndFlags(r.end)
        b0 == <<flags>>
        b1 == IF r.start.kind # "Unbounded" THEN BufEncode(b0, r.start.v) ELSE b0
        b2 == IF r.end.kind # "Unbounded" THEN BufEncode(b1, r.end.v) ELSE b1
    IN EncodeResult(b2)

\* Result<ClickHouseRange<i32>, BoxDynError>, or a panic out of decode.
RangeOk(start, end) == [kind |-> "Ok", start |-> start, end |-> end]
RangeErr == [kind |-> "Err", start |-> Unbounded, end |-> Unbounded]
RangePanic == [kind |-> "Panic", start |-> Unbounded, end |-> Unbounded]

\* ClickHouseValueRef::get(&mut buf, ..): reads the i32 length (Buf::get_i32
\* panics on fewer than four bytes), -1 is NULL, another negative length is an
\* error, and `&buf[..element_len]` panics past the end of the buffer.
ValueRefGet(buf) ==
    IF Len(buf) < 4 THEN [kind |-> "Panic", null |-> FALSE, bytes |-> <<>>, rest |-> buf]
    ELSE LET element_len == ReadInt(SubSeq(buf, 1, 4))
             after == SubSeq(buf, 5, Len(buf))
         IN IF element_len = -1
            THEN [kind |-> "Ok", null |-> TRUE, bytes |-> <<>>, rest |-> after]
            ELSE IF element_len < 0
            THEN [kind |-> "Err", null |-> FALSE, bytes |-> <<>>, rest |-> after]
            ELSE IF element_len > Len(after)
            THEN [kind |-> "Panic", null |-> FALSE, bytes |-> <<>>, rest |-> after]
            ELSE [kind |-> "Ok", null |-> FALSE,
                  bytes |-> SubSeq(after, 1, element_len),
                  rest |-> SubSeq(after, element_len + 1, Len(after))]

\* One bound of the binary form: the element (unless the side is infinite),
\* wrapped per the inclusive flag.  Gives the bound and the buffer left.
DecodeBound(buf, flags, inf, inc) ==
    IF Contains(flags, inf) THEN [kind |-> "Ok", bound |-> Unbounded, rest |-> buf]
    ELSE LET ref == ValueRefGet(buf)
             value == IntDecodeBinary(ref)
         IN IF ref.kind # "Ok" THEN [kind |-> ref.kind, bound |-> Unbounded, rest |-> buf]
            ELSE IF ~value.ok THEN [kind |-> "Err", bound |-> Unbounded, rest |-> buf]
            ELSE [kind |-> "Ok",
                  bound |-> IF Contains(flags, inc) THEN Included(value.v)
                            ELSE Excluded(value.v),
                  rest |-> ref.rest]

\* Decode for ClickHouseRange::decode, ClickHouseValueFormat::Binary.
\* ty is the kind of the value's declared type; Buf::get_u8 panics on an
\* empty buffer.
RangeDecodeBinary(ty, bytes) ==
    IF ty # "Range" THEN RangeErr
    ELSE IF bytes = <<>> THEN RangePanic
    ELSE LET flags == bytes[1]
             lo == DecodeBound(Tail(bytes), flags, LB_INF, LB_INC)
             hi == DecodeBound(lo.rest, flags, UB_INF, UB_INC)
         IN IF Contains(flags, EMPTY) THEN RangeOk(Unbounded, Unbounded)
            ELSE IF lo.kind # "Ok" THEN [RangeErr EXCEPT !.kind = lo.kind]
            ELSE IF hi.kind # "Ok" THEN [RangeErr EXCEPT !.kind = hi.kind]
            ELSE RangeOk(lo.bound, hi.bound)

\* Characters of the text form, as code points.
Quote == 34
LParen == 40
RParen == 41
Plus == 43
Comma == 44
Minus == 45
Digit0 == 48
Digit9 == 57
LBracket == 91
Backslash == 92
RBracket == 93

RECURSIVE SeqLeq(_, _)
\* Lexicographic <= on digit sequences of one length.
SeqLeq(a, b) ==
    IF a = <<>> THEN TRUE
    ELSE IF Head(a) # Head(b) THEN Head(a) < Head(b)
    ELSE SeqLeq(Tail(a), Tail(b))

RECURSIVE NegDigitsValue(_)
\* Minus the number the decimal digits write (i32::MIN has no positive twin).
NegDigitsValue(ds) ==
    IF ds = <<>> THEN 0
    ELSE NegDigitsValue(SubSeq(ds, 1, Len(ds) - 1)) * 10 - ds[Len(ds)]

\* int_decode, text: str::parse::<i64>() (an optional sign, then one or more
\* decimal digits), then try_into::<i32>().
IntDecodeText(text) ==
    LET signed == text # <<>> /\ Head(text) \in {Plus, Minus}
        neg == text # <<>> /\ Head(text) = Minus
        body == IF signed THEN Tail(text) ELSE text
        ds == [i \in 1..Len(body) |-> body[i] - Digit0]
        sig == StripLeadingZeros(ds)
        limit == IF neg THEN <<2, 1, 4, 7, 4, 8, 3, 6, 4, 8>>
                 ELSE <<2, 1, 4, 7, 4, 8, 3, 6, 4, 7>>
    IN IF body = <<>> THEN ElemErr
       ELSE IF \E i \in 1..Len(body) : body[i] < Digit0 \/ body[i] > Digit9 THEN ElemErr
       ELSE IF Len(sig) > 10 \/ (Len(sig) = 10 /\ ~SeqLeq(sig, limit)) THEN ElemErr
       ELSE ElemOk(IF neg THEN NegDigitsValue(sig) ELSE -NegDigitsValue(sig))

\* Option<i32>
NoElem == [some |-> FALSE, v |-> 0]
SomeElem(x) == [some |-> TRUE, v |-> x]

\* The locals of the text parser when it starts on the trimmed literal.
ParserStart(chars) ==
    [chars |-> chars, element |-> <<>>, done |-> FALSE, quoted |-> FALSE,
     in_quotes |-> FALSE, in_escape |-> FALSE, prev_ch |-> 0, count |-> 0,
     start |-> NoElem, end |-> NoElem, err |-> FALSE]

RECURSIVE ScanElement(_)
\* The inner `loop`: consumes characters up to an unquoted comma (break,
\* before prev_ch is updated) or the end of the literal (done).
ScanElement(p) ==
    IF p.chars = <<>> THEN [p EXCEPT !.done = TRUE]
    ELSE LET ch == Head(p.chars)
             q == [p EXCEPT !.chars = Tail(p.chars), !.prev_ch = ch]
         IN IF p.in_escape
            THEN ScanElement([q EXCEPT !.element = Append(p.element, ch),
                                      !.in_escape = FALSE])
            ELSE IF ch = Quote /\ p.in_quotes
            THEN ScanElement([q EXCEPT !.in_quotes = FALSE])
            ELSE IF ch = Quote
            THEN ScanElement([q EXCEPT !.in_quotes = TRUE, !.quoted = TRUE,
                                      !.element = IF p.prev_ch = Quote
                                                  THEN Append(p.element, Quote)
                                                  ELSE p.element])
            ELSE IF ch = Backslash
            THEN ScanElement([q EXCEPT !.in_escape = TRUE])
            ELSE IF ch = Comma /\ ~p.in_quotes
            THEN [p EXCEPT !.chars = Tail(p.chars)]
            ELSE ScanElement([q EXCEPT !.element = Append(p.element, ch)])

\* if !element.is_empty() || quoted
StoresElement(element, quoted) == element # <<>> \/ quoted

RECURSIVE ParseElements(_)
\* The outer `while !done`: one element per round; a non-empty or quoted
\* element is decoded and stored as start (first), end (second) or refused.
ParseElements(p) ==
    IF p.done \/ p.err THEN p
    ELSE LET e == ScanElement([p EXCEPT !.element = <<>>])
             count == e.count + 1
             value == IntDecodeText(e.element)
         IN IF ~StoresElement(e.element, e.quoted)
            THEN ParseElements([e EXCEPT !.count = count])
            ELSE IF ~value.ok THEN [e EXCEPT !.err = TRUE]
            ELSE IF count = 1
            THEN ParseElements([e EXCEPT !.count = count, !.start = SomeElem(value.v)])
            ELSE IF count = 2
            THEN ParseElements([e EXCEPT !.count = count, !.end = SomeElem(value.v)])
            ELSE [e EXCEPT !.count = count, !.err = TRUE]

\* parse_bound
ParseBound(ch, value) ==
    IF value.some
    THEN (IF ch \in {LParen, RParen} THEN [ok |-> TRUE, bound |-> Excluded(value.v)]
          ELSE IF ch \in {LBracket, RBracket} THEN [ok |-> TRUE, bound |-> Included(value.v)]
          ELSE [ok |-> FALSE, bound |-> Unbounded])
    ELSE [ok |-> TRUE, bound |-> Unbounded]

\* Decode for ClickHouseRange::decode, ClickHouseValueFormat::Text.  `sb[0]`
\* panics on the empty literal and `&s[1..(s.len() - 1)]` on one character.
RangeDecodeText(s) ==
    IF Len(s) = 0 THEN RangePanic
    ELSE IF Len(s) = 1 THEN RangePanic
    ELSE LET lower == s[1]
             upper == s[Len(s)]
             p == ParseElements(ParserStart(SubSeq(s, 2, Len(s) - 1)))
             start == ParseBound(lower, p.start)
             end == ParseBound(upper, p.end)
         IN IF p.err THEN RangeErr
            ELSE IF ~start.ok THEN RangeErr
            ELSE IF ~end.ok THEN RangeErr
            ELSE RangeOk(start.bound, end.bound)

----------------------------------------------------------------------------
(* Inputs of the range codec                                               *)

MaxInner == 5

\* Element values: both signs, zero, and one that needs two bytes.
Elems == {-1, 0, 1, 258}

Bounds == {Unbounded} \cup {Included(x) : x \in Elems} \cup {Excluded(x) : x \in Elems}

Ranges == {Range(s, e) : s \in Bounds, e \in Bounds}

NoRange == Range([kind |-> "none", v |-> 0], [kind |-> "none", v |-> 0])

\* A wire value as decode receives it; encode_by_ref's IsNull is kept with it.
Wire(format, ty, bytes, is_null) ==
    [format |-> format, ty |-> ty, bytes |-> bytes, is_null |-> is_null]

NoWire == Wire("none", "none", <<>>, "none")

\* Binary values a server or a broken peer can send: the encodings of the
\* ranges cut short anywhere, the EMPTY flag alone, with other flags and with
\* bytes behind it, and element lengths that are NULL, negative, too large
\* or not the four bytes of an i32.
BinaryInputs ==
    UNION {{SubSeq(RangeEncode(r).bytes, 1, k) : k \in 0..Len(RangeEncode(r).bytes)} :
            r \in {Range(Included(1), Excluded(258)), Range(Unbounded, Included(-1)),
                   Range(Excluded(0), Unbounded), Range(Unbounded, Unbounded)}}
    \cup {<<EMPTY>>, <<EMPTY + LB_INC>>, <<EMPTY>> \o ToBeBytes(4) \o ToBeBytes(1),
          <<EMPTY + LB_INF + UB_INF>>}
    \cup {<<UB_INF>> \o ToBeBytes(n) \o bs :
            n \in {-2, -1, 0, 1, 2, 5}, bs \in {<<>>, <<1>>, <<1, 2>>, <<255, 255>>}}

RECURSIVE Texts(_, _)
\* Every text of at most n characters over the alphabet.
Texts(alphabet, n) ==
    IF n = 0 THEN {<<>>}
    ELSE {<<>>} \cup {Append(t, ch) : t \in Texts(alphabet, n - 1), ch \in alphabet}

\* Literals: a boundary character (`x` stands for any other one) on each
\* side of up to MaxInner characters; the shorter texts; and the literals
\* [1,2,3], [1,2,], ["1",2) and [\1,2].
TextInputs ==
    {<<lo>> \o t \o <<hi>> :
        lo \in {LBracket, LParen, 120}, hi \in {RBracket, RParen, 120},
        t \in Texts({Comma, 49, Quote}, MaxInner)}
    \cup {<<>>, <<LBracket>>, <<RParen>>, <<49>>}
    \cup {<<LBracket, 49, Comma, 50, Comma, 51, RBracket>>,
          <<LBracket, 49, Comma, 50, Comma, RBracket>>,
          <<LBracket, Quote, 49, Quote, Comma, 50, RParen>>,
          <<LBracket, Backslash, 49, Comma, 50, RBracket>>}

WireInputs ==
    {Wire("Binary", ty, b, "none") : ty \in {"Range", "Simple"}, b \in BinaryInputs}
        \cup {Wire("Text", "Range", t, "none") : t \in TextInputs}

NoEncode == [bytes |-> <<>>, is_null |-> "none"]

\* A range to encode, or a wire value to decode.
InitRange ==
    /\ rwire2 = NoEncode
    /\ rres = RangeErr
    /\ \/ rpc = "value" /\ rval \in Ranges /\ rwire = NoWire
       \/ rpc = "wire" /\ rval = NoRange /\ rwire \in WireInputs

IdleRange ==
    /\ rpc = "idle"
    /\ rval = NoRange
    /\ rwire = NoWire
    /\ rres = RangeErr
    /\ rwire2 = NoEncode

\* range.encode_by_ref(&mut buf), sent as a binary value of a range type
RangeEncodeStep ==
    /\ rpc = "value"
    /\ rwire' = Wire("Binary", "Range", RangeEncode(rval).bytes, RangeEncode(rval).is_null)
    /\ rpc' = "wire"
    /\ UNCHANGED <<rval, rres, rwire2, nonRangeVars>>

\* ClickHouseRange::<i32>::decode(value)
RangeDecodeStep ==
    /\ rpc = "wire"
    /\ rres' = IF rwire.format = "Binary"
               THEN RangeDecodeBinary(rwire.ty, rwire.bytes)
               ELSE RangeDecodeText(rwire.bytes)
    /\ rpc' = "decoded"
    /\ UNCHANGED <<rval, rwire, rwire2, nonRangeVars>>

\* encode_by_ref on the range that decode returned
RangeReencodeStep ==
    /\ rpc = "decoded"
    /\ rres.kind = "Ok"
    /\ rwire2' = RangeEncode(Range(rres.start, rres.end))
    /\ rpc' = "reencoded"
    /\ UNCHANGED <<rval, rwire, rres, nonRangeVars>>

NextRange == RangeEncodeStep \/ RangeDecodeStep \/ RangeReencodeStep


----------------------------------------------------------------------------
(* Claims about the range codec                                            *)

\* The flag bits the claims name for a bound of each kind.
LowerBits(b) == IF b.kind = "Included" THEN LB_INC
                ELSE IF b.kind = "Unbounded" THEN LB_INF ELSE 0
UpperBits(b) == IF b.kind = "Included" THEN UB_INC
                ELSE IF b.kind = "Unbounded" THEN UB_INF ELSE 0

\* The element of a bounded side behind its 4-byte length, nothing otherwise.
Prefixed(b) == IF b.kind = "Unbounded" THEN <<>> ELSE <<0, 0, 0, 4>> \o ToBeBytes(b.v)

\* The literal without its two boundary characters.
Inner(t) == SubSeq(t, 2, Len(t) - 1)

\* The number of commas in a text.
Commas(t) == Cardinality({i \in 1..Len(t) : t[i] = Comma})

\* A text literal has been decoded.
DecodedText == rpc = "decoded" /\ rwire.format = "Text"

\* A binary value of a range type has been decoded.
DecodedBinary == rpc \in {"decoded", "reencoded"} /\ rwire.format = "Binary"
                    /\ rwire.ty = "Range"

\* C12: for every range with bounds Included(x), Excluded(x) or Unbounded,
\* encode writes the flags byte (LB_INC/UB_INC for Included, LB_INF/UB_INF for
\* Unbounded, no bit for Excluded), then the length-prefixed elements of the
\* bounded sides, lower first, and reports IsNull::No; binary decode of what
\* it wrote gives the range back.
C12_BinaryRoundTrip ==
    (rpc \in {"wire", "decoded", "reencoded"} /\ rval # NoRange) =>
        /\ rwire.bytes = <<LowerBits(rval.start) + UpperBits(rval.end)>>
                            \o Prefixed(rval.start) \o Prefixed(rval.end)
        /\ rwire.is_null = "No"
        /\ rpc # "wire" => rres = RangeOk(rval.start, rval.end)

\* C12 witness: (1, 258] has been encoded and decoded.
C12_Witness ==
    /\ rpc = "decoded"
    /\ rval = Range(Excluded(1), Included(258))
    /\ rwire.bytes = <<UB_INC, 0, 0, 0, 4, 0, 0, 0, 1, 0, 0, 0, 4, 0, 0, 1, 2>>
    /\ rres.kind = "Ok"

\* C13 (as claimed): a binary value with the EMPTY flag decodes (whatever
\* follows the flags byte) to a range that is not the fully unbounded range,
\* and encoding that range writes the EMPTY flag and no element bytes.
C13_EmptyRoundTrip ==
    (DecodedBinary /\ rwire.bytes # <<>> /\ Contains(rwire.bytes[1], EMPTY)) =>
        /\ rres.kind = "Ok"
        /\ rres # RangeDecodeBinary("Range", <<LB_INF + UB_INF>>)
        /\ rpc = "reencoded" =>
              /\ Contains(rwire2.bytes[1], EMPTY)
              /\ Len(rwire2.bytes) = 1

\* C13 witness: the value [EMPTY] has been decoded and the result encoded.
C13_Witness ==
    /\ rpc = "reencoded"
    /\ rwire.format = "Binary"
    /\ rwire.bytes = <<EMPTY>>
    /\ rres = RangeOk(Unbounded, Unbounded)
    /\ rwire2.bytes = <<LB_INF + UB_INF>>

\* C14 (as claimed): text decode of a literal with more than two
\* comma-separated elements (two or more commas, no quotes or escapes) is an
\* error, the literals [1,2,3] and [1,2,] among them.
C14_ThirdElementIsError ==
    (DecodedText /\ Len(rwire.bytes) >= 2
        /\ Commas(Inner(rwire.bytes)) >= 2
        /\ \A i \in 1..Len(rwire.bytes) : rwire.bytes[i] \notin {Quote, Backslash}) =>
            rres.kind = "Err"

\* C14 witness: [1,2,] has been decoded, to [1,2].
C14_Witness ==
    /\ DecodedText
    /\ rwire.bytes = <<LBracket, 49, Comma, 50, Comma, RBracket>>
    /\ rres = RangeOk(Included(1), Included(2))

\* C15 (as claimed): in text decode a first or last character other than
\* ( ) [ ] is an error whether or not that side has an element, and for a
\* side with an element ( or ) gives Excluded and [ or ] gives Included.
C15_BoundaryCharacters ==
    (DecodedText /\ Len(rwire.bytes) >= 2) =>
        LET lower == rwire.bytes[1]
            upper == rwire.bytes[Len(rwire.bytes)]
            brackets == {LParen, RParen, LBracket, RBracket}
        IN /\ (lower \notin brackets \/ upper \notin brackets) => rres.kind = "Err"
           /\ rres.kind = "Ok" =>
                /\ rres.start.kind = "Excluded" => lower \in {LParen, RParen}
                /\ rres.start.kind = "Included" => lower \in {LBracket, RBracket}
                /\ rres.end.kind = "Excluded" => upper \in {LParen, RParen}
                /\ rres.end.kind = "Included" => upper \in {LBracket, RBracket}

\* C15 witness: x,1] has been decoded, to (,1].
C15_Witness ==
    /\ DecodedText
    /\ rwire.bytes = <<120, Comma, 49, RBracket>>
    /\ rres = RangeOk(Unbounded, Included(1))

\* C16 (as claimed): range decode does not panic, and returns an error for
\* a text literal of fewer than two characters, for an empty binary buffer,
\* and where an element is expected but fewer than four bytes are left or
\* the length read exceeds the bytes that follow it.
C16_MalformedIsError ==
    rpc = "decoded" =>
        /\ rres.kind # "Panic"
        /\ (rwire.format = "Text" /\ Len(rwire.bytes) < 2) => rres.kind = "Err"
        /\ (rwire.format = "Binary" /\ rwire.bytes = <<>>) => rres.kind = "Err"
        /\ (rwire.format = "Binary" /\ rwire.bytes \in
                {<<0>>, <<0, 0, 0>>, <<UB_INF, 0, 0, 0, 5, 1, 2>>}) => rres.kind = "Err"

\* C16 witness: a binary range value cut inside its first length prefix has
\* been decoded.
C16_Witness ==
    /\ rpc = "decoded"
    /\ rwire.format = "Binary"
    /\ rwire.ty = "Range"
    /\ rwire.bytes = <<LB_INC, 0, 0>>
    /\ rres.kind = "Panic"

----------------------------------------------------------------------------
(* Part 4: type identity (type_info.rs).  A name is the sequence of its    *)
(* code points.                                                            *)

\* Names used below.
N_bool == <<98, 111, 111, 108>>          \* bool
N_int4 == <<105, 110, 116, 52>>          \* int4
N_INT4 == <<73, 78, 84, 52>>             \* INT4
N__int4 == <<95, 105, 110, 116, 52>>     \* _int4
N_foo == <<102, 111, 111>>               \* foo
N_unknown == <<63>>                      \* ?

Underscore == 95
Dot == 46

\* ClickHouseType: a built-in variant (tag only), Custom(oid, name, kind),
\* DeclareWithName(name), DeclareWithOid(oid) or DeclareArrayOf(elem_name, name).
Type(tag, oid, name, kind, elem) ==
    [tag |-> tag, oid |-> oid, name |-> name, kind |-> kind, elem |-> elem]

Builtin(tag) == Type(tag, 0, <<>>, "none", <<>>)
CustomSimple(oid, name) == Type("Custom", oid, name, "Simple", <<>>)
CustomArray(oid, name, elem) == Type("Custom", oid, name, "Array", elem)

\* ClickHouseTypeInfo::with_name
WithName(name) == Type("DeclareWithName", 0, name, "none", <<>>)

\* ClickHouseTypeInfo::with_oid
WithOid(oid) == Type("DeclareWithOid", oid, <<>>, "none", <<>>)

\* ClickHouseTypeInfo::array_of: name is format!("{elem_name}[]")
ArrayOf(elem_name) ==
    Type("DeclareArrayOf", 0, elem_name \o <<91, 93>>, "none", WithName(elem_name))

\* Option<_>
NoneOf == [some |-> FALSE, v |-> <<>>]
SomeOf(x) == [some |-> TRUE, v |-> x]

\* ClickHouseType::try_oid
TryOid(t) ==
    CASE t.tag = "Bool"            -> SomeOf(16)
      [] t.tag = "Int4"            -> SomeOf(23)
      [] t.tag = "Int4Array"       -> SomeOf(1007)
      [] t.tag = "Custom"          -> SomeOf(t.oid)
      [] t.tag = "DeclareWithOid"  -> SomeOf(t.oid)
      [] t.tag = "DeclareWithName" -> NoneOf
      [] t.tag = "DeclareArrayOf"  -> NoneOf

\* ClickHouseType::name
TypeName(t) ==
    CASE t.tag = "Bool"            -> N_bool
      [] t.tag = "Int4"            -> N_int4
      [] t.tag = "Int4Array"       -> N__int4
      [] t.tag = "Custom"          -> t.name
      [] t.tag = "DeclareWithOid"  -> N_unknown
      [] t.tag = "DeclareWithName" -> t.name
      [] t.tag = "DeclareArrayOf"  -> t.name

\* ClickHouseType::try_array_element
TryArrayElement(t) ==
    CASE t.tag = "Bool"            -> NoneOf
      [] t.tag = "Int4"            -> NoneOf
      [] t.tag = "Int4Array"       -> SomeOf(Builtin("Int4"))
      [] t.tag = "Custom"          -> IF t.kind = "Array" THEN SomeOf(t.elem) ELSE NoneOf
      [] t.tag = "DeclareWithOid"  -> NoneOf
      [] t.tag = "DeclareWithName" ->
            IF t.name # <<>> /\ Head(t.name) = Underscore
            THEN SomeOf(WithName(Tail(t.name)))
            ELSE NoneOf
      [] t.tag = "DeclareArrayOf"  -> SomeOf(t.elem)

\* ClickHouseType::is_declare_with_oid
IsDeclareWithOid(t) == t.tag = "DeclareWithOid"

\* char::eq_ignore_ascii_case, through to_ascii_lowercase of both
ToAsciiLowercase(ch) == IF 65 <= ch /\ ch <= 90 THEN ch + 32 ELSE ch

\* IdentifierChar { ch, case_sensitive }
IdentifierChar(ch, case_sensitive) == [ch |-> ch, case_sensitive |-> case_sensitive]

\* (mutant) characters are compared exactly whatever their quoting.
IdentifierCharEqExact(a, b) == a.ch = b.ch

\* IdentifierChar::eq
IdentifierCharEq(a, b) ==
    IF a.case_sensitive \/ b.case_sensitive
    THEN a.ch = b.ch
    ELSE ToAsciiLowercase(a.ch) = ToAsciiLowercase(b.ch)

RECURSIVE IdentifierCharsFrom(_, _, _)
\* The filter_map closure of identifier_chars, with its two captured flags.
IdentifierCharsFrom(ident, case_sensitive, last_char_quote) ==
    IF ident = <<>> THEN <<>>
    ELSE LET ch == Head(ident) IN
         IF ch = Quote
         THEN (IF last_char_quote
               THEN <<IdentifierChar(ch, case_sensitive)>>
                       \o IdentifierCharsFrom(Tail(ident), case_sensitive, FALSE)
               ELSE IdentifierCharsFrom(Tail(ident), case_sensitive, TRUE))
         ELSE IF last_char_quote
         THEN <<IdentifierChar(ch, ~case_sensitive)>>
                 \o IdentifierCharsFrom(Tail(ident), ~case_sensitive, FALSE)
         ELSE <<IdentifierChar(ch, case_sensitive)>>
                 \o IdentifierCharsFrom(Tail(ident), case_sensitive, FALSE)

\* identifier_chars
IdentifierChars(ident) == IdentifierCharsFrom(ident, FALSE, FALSE)

\* name1.starts_with("U&")
StartsWithUnicodeEscape(name) == Len(name) >= 2 /\ name[1] = 85 /\ name[2] = 38

\* name_eq
NameEq(name1, name2) ==
    IF StartsWithUnicodeEscape(name1) THEN name1 = name2
    ELSE LET chars1 == IdentifierChars(name1)
             chars2 == IdentifierChars(name2)
             n == IF Len(chars1) < Len(chars2) THEN Len(chars1) ELSE Len(chars2)
         IN /\ \A i \in 1..n : IdentifierCharEq(chars1[i], chars2[i])
            /\ Len(chars1) = Len(chars2)

\* (mutant) the id relaxation is never applied.
SoftFallbackNever(a, b, soft_eq) == FALSE

\* (mutant) the id relaxation of `==` is applied whatever soft_eq is.
SoftFallbackAlways(a, b, soft_eq) == IsDeclareWithOid(a) \/ IsDeclareWithOid(b)

\* if soft_eq && (self.is_declare_with_oid() || other.is_declare_with_oid())
SoftFallback(a, b, soft_eq) == soft_eq /\ (IsDeclareWithOid(a) \/ IsDeclareWithOid(b))

RECURSIVE EqImpl(_, _, _)
\* ClickHouseType::eq_impl.  The elements of two arrays are compared with
\* `==` (soft_eq = true) whatever the caller's soft_eq.
EqImpl(a, b, soft_eq) ==
    IF TryOid(a).some /\ TryOid(b).some THEN TryOid(a).v = TryOid(b).v
    ELSE IF SoftFallback(a, b, soft_eq) THEN TRUE
    ELSE IF TryArrayElement(a).some /\ TryArrayElement(b).some
    THEN EqImpl(TryArrayElement(a).v, TryArrayElement(b).v, TRUE)
    ELSE NameEq(TypeName(a), TypeName(b))

\* PartialEq for ClickHouseType::eq
TypeEqEq(a, b) == EqImpl(a, b, TRUE)

\* ClickHouseTypeInfo::type_eq
TypeEq(a, b) == EqImpl(a, b, FALSE)

----------------------------------------------------------------------------
(* Inputs of the type comparisons                                          *)

MaxSegs == 2

\* Built-in, custom and declared types; ids and names that meet and that
\* do not.
Types ==
    {Builtin("Bool"), Builtin("Int4"), Builtin("Int4Array"),
     CustomSimple(70000, N_foo),
     CustomArray(70001, <<Underscore>> \o N_foo, CustomSimple(70000, N_foo))}
    \cup {WithOid(oid) : oid \in {1, 16, 23, 1007, 70000}}
    \cup {WithName(name) : name \in {N_bool, N_INT4, N_foo, N__int4, N_unknown}}
    \cup {ArrayOf(elem_name) : elem_name \in {N_int4, N_foo}}

\* The words of the identifiers: foo, Foo and fo.
Words == {N_foo, <<70, 111, 111>>, <<102, 111>>}

\* A segment of a name: a word, written bare or in double quotes.
Segments == {[quoted |-> q, word |-> w] : q \in BOOLEAN, w \in Words}

RECURSIVE SegmentSeqs(_)
\* One to n segments.
SegmentSeqs(n) ==
    IF n = 1 THEN {<<s>> : s \in Segments}
    ELSE SegmentSeqs(n - 1)
            \cup {Append(q, s) : q \in SegmentSeqs(n - 1), s \in Segments}

RECURSIVE NameText(_)
\* The name as written: segments joined by dots, quoted ones in quotes.
NameText(segs) ==
    LET s == Head(segs)
        w == IF s.quoted THEN <<Quote>> \o s.word \o <<Quote>> ELSE s.word
    IN IF Len(segs) = 1 THEN w ELSE w \o <<Dot>> \o NameText(Tail(segs))

\* Names of one to MaxSegs segments, and names around the Unicode-escape
\* prefix: U&foo, u&foo, U&"foo", u&"foo" and "U&foo".
Names ==
    {[segs |-> q, text |-> NameText(q)] : q \in SegmentSeqs(MaxSegs)}
    \cup {[segs |-> <<>>, text |-> t] :
            t \in {<<85, 38>> \o N_foo, <<117, 38>> \o N_foo,
                   <<85, 38, Quote>> \o N_foo \o <<Quote>>,
                   <<117, 38, Quote>> \o N_foo \o <<Quote>>,
                   <<Quote, 85, 38>> \o N_foo \o <<Quote>>}}

NoCompare == [ab |-> FALSE, ba |-> FALSE, strict_ab |-> FALSE, strict_ba |-> FALSE]

\* Two types, or two names, to compare.
InitType ==
    /\ tres = NoCompare
    /\ \/ tpc = "types" /\ ta \in Types /\ tb \in Types
       \/ tpc = "names" /\ ta \in Names /\ tb \in Names

IdleType ==
    /\ tpc = "idle"
    /\ ta = <<>>
    /\ tb = <<>>
    /\ tres = NoCompare

\* a == b, b == a, a.type_eq(&b) and b.type_eq(&a)
TypeEqStep ==
    /\ tpc = "types"
    /\ tres' = [ab |-> TypeEqEq(ta, tb), ba |-> TypeEqEq(tb, ta),
                strict_ab |-> TypeEq(ta, tb), strict_ba |-> TypeEq(tb, ta)]
    /\ tpc' = "compared"
    /\ UNCHANGED <<ta, tb, nonTypeVars>>

\* name_eq(a, b) and name_eq(b, a)
NameEqStep ==
    /\ tpc = "names"
    /\ tres' = [NoCompare EXCEPT !.ab = NameEq(ta.text, tb.text),
                                 !.ba = NameEq(tb.text, ta.text)]
    /\ tpc' = "named"
    /\ UNCHANGED <<ta, tb, nonTypeVars>>

NextType == TypeEqStep \/ NameEqStep

----------------------------------------------------------------------------
(* Claims about type identity                                              *)

\* The type has a statically known id; it is declared by name only.
HasId(t) == t.tag \notin {"DeclareWithName", "DeclareArrayOf"}
ByNameOnly(t) == t.tag \in {"DeclareWithName", "DeclareArrayOf"}

\* The id of a type that has one.
IdOf(t) ==
    CASE t.tag = "Bool" -> 16
      [] t.tag = "Int4" -> 23
      [] t.tag = "Int4Array" -> 1007
      [] OTHER -> t.oid

\* C17: under ==, a type declared by with_oid equals every type declared by
\* with_name or array_of, in both orders; when both operands have a
\* statically known id, == is equality of the ids.
C17_SoftEquality ==
    tpc = "compared" =>
        /\ (ta.tag = "DeclareWithOid" /\ ByNameOnly(tb)) => (tres.ab /\ tres.ba)
        /\ (HasId(ta) /\ HasId(tb)) =>
              /\ tres.ab = (IdOf(ta) = IdOf(tb))
              /\ tres.ba = (IdOf(ta) = IdOf(tb))

\* C17 witness: with_oid(1) has been compared with array_of("foo").
C17_Witness ==
    /\ tpc = "compared"
    /\ ta = WithOid(1)
    /\ tb = ArrayOf(N_foo)
    /\ tres.ab
    /\ tres.ba

SegmentEq(s1, s2) ==
    IF s1.quoted \/ s2.quoted
    THEN s1.word = s2.word
    ELSE [i \in 1..Len(s1.word) |-> ToAsciiLowercase(s1.word[i])]
            = [i \in 1..Len(s2.word) |-> ToAsciiLowercase(s2.word[i])]

Seg(word) == [quoted |-> FALSE, word |-> word]
QuotedSeg(word) == [quoted |-> TRUE, word |-> word]

C20_NameEqSymmetric ==
    tpc = "named" => tres.ab = tres.ba

\* C20 witness: U&foo has been compared with u&foo.
C20_Witness ==
    /\ tpc = "named"
    /\ ta.text = <<85, 38>> \o N_foo
    /\ tb.text = <<117, 38>> \o N_foo
    /\ ~tres.ab
    /\ tres.ba

----------------------------------------------------------------------------
(* Part 5: the scalar codecs (types/int.rs, types/chrono/date.rs,          *)
(* types/chrono/datetime.rs, types/interval.rs, types/hstore.rs,           *)
(* types/lquery.rs).  A 64-bit integer is a sign and the decimal digits of *)
(* its magnitude; byte strings are big-endian, and the arithmetic on them  *)
(* is done a byte at a time.                                               *)

RECURSIVE MulAdd(_, _, _)
\* bytes * k + a, in as many bytes as `bytes` has (wrapping).
MulAdd(bytes, k, a) ==
    IF bytes = <<>> THEN <<>>
    ELSE LET n == Len(bytes)
             t == bytes[n] * k + a
         IN MulAdd(SubSeq(bytes, 1, n - 1), k, t \div 256) \o <<t % 256>>

RECURSIVE DivStep(_, _, _, _)
\* Long division by d of the number r * base^Len(ds) + ds, whose digits ds
\* are in the given base: the quotient (as many digits) and the remainder.
DivStep(ds, base, d, r) ==
    IF ds = <<>> THEN [q |-> <<>>, r |-> r]
    ELSE LET t == r * base + Head(ds)
             rest == DivStep(Tail(ds), base, d, t % d)
         IN [q |-> <<t \div d>> \o rest.q, r |-> rest.r]

DivMod(bytes, d) == DivStep(bytes, 256, d, 0)

IsZeroBytes(bytes) == \A i \in 1..Len(bytes) : bytes[i] = 0

\* Two's-complement negation: !x + 1.
Negate(bytes) == MulAdd([i \in 1..Len(bytes) |-> 255 - bytes[i]], 1, 1)

RECURSIVE BytesToDigits(_)
\* The decimal digits of an unsigned byte string (none for zero).
BytesToDigits(bytes) ==
    IF IsZeroBytes(bytes) THEN <<>>
    ELSE LET dm == DivMod(bytes, 10) IN BytesToDigits(dm.q) \o <<dm.r>>

RECURSIVE DigitsToBytes(_, _)
\* The number the decimal digits write, in n bytes.
DigitsToBytes(ds, n) ==
    IF ds = <<>> THEN [i \in 1..n |-> 0]
    ELSE MulAdd(DigitsToBytes(SubSeq(ds, 1, Len(ds) - 1), n), 10, ds[Len(ds)])

\* An i64.
Int64(neg, mag) == [neg |-> neg, mag |-> mag]

Int64Zero == Int64(FALSE, <<0>>)

\* The i64 whose two's-complement form is the eight bytes.
Int64FromBytes(b8) ==
    IF IsZeroBytes(b8) THEN Int64Zero
    ELSE IF b8[1] >= 128 THEN Int64(TRUE, BytesToDigits(Negate(b8)))
    ELSE Int64(FALSE, BytesToDigits(b8))

\* i64::to_be_bytes
Int64ToBeBytes(x) ==
    IF x.neg THEN Negate(DigitsToBytes(x.mag, 8)) ELSE DigitsToBytes(x.mag, 8)

\* An i8, i16 or i32; a NaiveDate; a byte or character string; no value.
Small(n) == [n |-> n]
Date(day) == [day |-> day]
Bytes(b) == [bytes |-> b]
Nothing == [none |-> TRUE]

I32Max == <<2, 1, 4, 7, 4, 8, 3, 6, 4, 7>>
I32MinMag == <<2, 1, 4, 7, 4, 8, 3, 6, 4, 8>>
I64Max == <<9, 2, 2, 3, 3, 7, 2, 0, 3, 6, 8, 5, 4, 7, 7, 5, 8, 0, 7>>
I64MinMag == <<9, 2, 2, 3, 3, 7, 2, 0, 3, 6, 8, 5, 4, 7, 7, 5, 8, 0, 8>>

\* mag <= limit, for digit strings without leading zeros.
MagLeq(mag, limit) ==
    Len(mag) < Len(limit) \/ (Len(mag) = Len(limit) /\ SeqLeq(mag, limit))

FitsI32(x) == MagLeq(x.mag, IF x.neg THEN I32MinMag ELSE I32Max)

AsInt(x) == IF x.neg THEN NegDigitsValue(x.mag) ELSE -NegDigitsValue(x.mag)

\* Result<T, BoxDynError>, and a panic unwinding out of the call.
Ok(v) == [kind |-> "Ok", v |-> v]
Err == [kind |-> "Err", v |-> Nothing]
Panic == [kind |-> "Panic", v |-> Nothing]

\* ClickHouseValueRef: the format and the Option<&[u8]> of the value.
\* `ty` is the Rust type the value is decoded as.
ValueRef(ty, format, bytes) ==
    [ty |-> ty, format |-> format, null |-> FALSE, bytes |-> bytes]
NullRef(ty, format) == [ty |-> ty, format |-> format, null |-> TRUE, bytes |-> <<>>]
NoValueRef == [ty |-> "none", format |-> "none", null |-> FALSE, bytes |-> <<>>]

RECURSIVE Utf8Valid(_)
\* std::str::from_utf8 succeeds, for bytes below 0xE0: ASCII, and a lead
\* byte 0xC2..0xDF with one continuation byte.
Utf8Valid(bytes) ==
    IF bytes = <<>> THEN TRUE
    ELSE IF Head(bytes) < 128 THEN Utf8Valid(Tail(bytes))
    ELSE /\ Head(bytes) >= 194 /\ Head(bytes) <= 223
         /\ Len(bytes) >= 2
         /\ bytes[2] >= 128 /\ bytes[2] <= 191
         /\ Utf8Valid(Tail(Tail(bytes)))

\* ClickHouseValueRef::as_bytes and ::as_str
AsBytes(value) == IF value.null THEN Err ELSE Ok(Bytes(value.bytes))
AsStr(value) ==
    IF value.null \/ ~Utf8Valid(value.bytes) THEN Err ELSE Ok(Bytes(value.bytes))

\* str::parse::<i64>(): an optional sign, one or more decimal digits, and
\* the value within i64.
ParseI64(text) ==
    LET signed == text # <<>> /\ Head(text) \in {Plus, Minus}
        neg == text # <<>> /\ Head(text) = Minus
        body == IF signed THEN Tail(text) ELSE text
        mag == StripLeadingZeros([i \in 1..Len(body) |-> body[i] - Digit0])
    IN IF body = <<>> THEN Err
       ELSE IF \E i \in 1..Len(body) : body[i] < Digit0 \/ body[i] > Digit9 THEN Err
       ELSE IF ~MagLeq(mag, IF neg THEN I64MinMag ELSE I64Max) THEN Err
       ELSE Ok(Int64(neg /\ mag # <<0>>, mag))

\* (mutant) BigEndian::read_uint: the bytes are not sign-extended.
ReadIntUnsigned(buf) ==
    Int64FromBytes([i \in 1..(8 - Len(buf)) |-> 0] \o buf)

\* BigEndian::read_int(buf, buf.len()), for one to eight bytes.
ReadInt64(buf) ==
    Int64FromBytes([i \in 1..(8 - Len(buf)) |-> IF buf[1] >= 128 THEN 255 ELSE 0] \o buf)

\* int_decode
IntDecode(value) ==
    IF value.format = "Text"
    THEN IF AsStr(value).kind = "Err" THEN Err ELSE ParseI64(AsStr(value).v.bytes)
    ELSE IF AsBytes(value).kind = "Err" THEN Err
    ELSE IF Len(value.bytes) = 0 THEN Err
    ELSE IF Len(value.bytes) >= 9 THEN Err
    ELSE Ok(ReadInt64(value.bytes))

\* i64 -> i8 / i16 / i32: TryFrom, an error out of range.
TryInto(x, bits) ==
    IF ~FitsI32(x) THEN Err
    ELSE IF bits < 32 /\ (AsInt(x) < -(2 ^ (bits - 1)) \/ AsInt(x) >= 2 ^ (bits - 1))
    THEN Err
    ELSE Ok(Small(AsInt(x)))

\* i8 / i16 / i32 ::to_be_bytes
ToBeBytesN(n, bits) ==
    SubSeq(ToBeBytes(n), 5 - bits \div 8, 4)

\* Encode for i8, i16, i32 and i64: buf.extend(&self.to_be_bytes())
IntEncode(ty, x) ==
    CASE ty = "i8"  -> ToBeBytesN(x.n, 8)
      [] ty = "i16" -> ToBeBytesN(x.n, 16)
      [] ty = "i32" -> ToBeBytesN(x.n, 32)
      [] ty = "i64" -> Int64ToBeBytes(x)

\* Decode for i16, i32, i64, and for i8 in the binary format
IntDecodeAs(ty, value) ==
    LET r == IntDecode(value)
    IN IF r.kind = "Err" THEN Err
       ELSE CASE ty = "i8"  -> TryInto(r.v, 8)
              [] ty = "i16" -> TryInto(r.v, 16)
              [] ty = "i32" -> TryInto(r.v, 32)
              [] ty = "i64" -> r

RECURSIVE TrimStartMatches(_, _)
\* str::trim_start_matches(c)
TrimStartMatches(text, c) ==
    IF text # <<>> /\ Head(text) = c THEN TrimStartMatches(Tail(text), c) ELSE text

RECURSIVE OctalValue(_)
OctalValue(ds) ==
    IF ds = <<>> THEN 0
    ELSE OctalValue(SubSeq(ds, 1, Len(ds) - 1)) * 8 + (ds[Len(ds)] - Digit0)

Digit7 == 55

\* i8::from_str_radix(src, 8): an optional sign, one or more octal digits,
\* and the value within i8 (the accumulation is checked).
FromStrRadix8(src) ==
    LET signed == src # <<>> /\ Head(src) \in {Plus, Minus}
        neg == src # <<>> /\ Head(src) = Minus
        digits == IF signed THEN Tail(src) ELSE src
        v == IF neg THEN -OctalValue(digits) ELSE OctalValue(digits)
    IN IF digits = <<>> THEN Err
       ELSE IF \E i \in 1..Len(digits) : digits[i] < Digit0 \/ digits[i] > Digit7 THEN Err
       ELSE IF v < -128 \/ v > 127 THEN Err
       ELSE Ok(Small(v))

\* `byte as i8`
AsI8(byte) == IF byte >= 128 THEN byte - 256 ELSE byte

\* text.as_bytes()[0] as i8
FirstByte(text) == Ok(Small(AsI8(text[1])))

\* Decode for i8 (the "char" type)
CharDecode(value) ==
    IF value.format = "Binary" THEN IntDecodeAs("i8", value)
    ELSE IF AsStr(value).kind = "Err" THEN Err
    ELSE LET text == AsStr(value).v.bytes
         IN IF text = <<>> THEN Ok(Small(0))
            ELSE IF Head(text) = Backslash
            THEN FromStrRadix8(TrimStartMatches(text, Backslash))
            ELSE FirstByte(text)

\* A NaiveDate is its day number, NaiveDate::num_days_from_ce (0001-01-01 is
\* day 1).  postgres_epoch_date(): 2000-01-01.
PostgresEpochDate == 730120

\* NaiveDate::MIN (-262143-01-01) and NaiveDate::MAX (+262142-12-31).
NaiveDateMin == -95746129
NaiveDateMax == 95745399

\* A NaiveDateTime: the date, the second of the day and the nanosecond.
NaiveDateTime(date, secs, nanos) == [date |-> date, secs |-> secs, nanos |-> nanos]

SecsPerDay == 86400
MicrosPerSec == 1000000
NanosPerMicro == 1000
NanosPerSec == 1000000000

\* Encode for NaiveDate: (self - epoch).num_days() as an i32 (every NaiveDate
\* is within 2^31 days of the epoch), then the i32 encoder.
DateEncode(d) == Ok(Bytes(IntEncode("i32", Small(d.day - PostgresEpochDate))))

\* postgres_epoch_date() + TimeDelta::try_days(days): Add for NaiveDate is
\* checked_add_signed(..).expect(..), which panics outside MIN..=MAX.
DateAdd(days) ==
    IF days < NaiveDateMin - PostgresEpochDate \/ days > NaiveDateMax - PostgresEpochDate
    THEN Panic
    ELSE Ok(Date(PostgresEpochDate + days))

\* Decode for NaiveDate, binary format
DateDecode(value) ==
    LET days == IntDecodeAs("i32", value)
    IN IF days.kind = "Err" THEN Err ELSE DateAdd(days.v.n)

\* (self - epoch).num_microseconds(): the whole seconds (rounded toward
\* zero) times 1_000_000 plus the sub-second nanoseconds / 1000 (toward zero
\* as well), checked; every NaiveDateTime is within i64 microseconds of the
\* epoch.  Computed on the two's-complement bytes:
\*   secs  = days * 86_400 + second of the day      (the floor)
\*   below the epoch with nanos > 0 the result is
\*   (secs + 1) * 10^6 - (10^9 - nanos) / 1000.
NumMicroseconds(dt) ==
    LET days == dt.date - PostgresEpochDate
        secs == MulAdd([i \in 1..4 |-> IF days < 0 THEN 255 ELSE 0] \o ToBeBytes(days),
                       SecsPerDay, dt.secs)
    IN IF days < 0 /\ dt.nanos > 0
       THEN MulAdd(secs, MicrosPerSec,
                   MicrosPerSec - (NanosPerSec - dt.nanos) \div NanosPerMicro)
       ELSE MulAdd(secs, MicrosPerSec, dt.nanos \div NanosPerMicro)

\* Encode for NaiveDateTime
TimestampEncode(dt) == Ok(Bytes(NumMicroseconds(dt)))

\* The decimal digits as a number that is known to fit.
DigitsValue(ds) == -NegDigitsValue(ds)

\* postgres_epoch_datetime() + Duration::microseconds(us).
\* Duration::microseconds splits us by div_euclid / rem_euclid 1_000_000; the
\* addition carries the seconds into days and adds those to the date with
\* checked_add_signed(..).expect(..).  With m = |us|:
\*   m = dm * 86_400 * 10^6 + rs * 10^6 + rm
TimestampAdd(us) ==
    LET bysec == DivStep(us.mag, 10, MicrosPerSec, 0)
        byday == DivStep(bysec.q, 10, SecsPerDay, 0)
        dm == DigitsValue(byday.q)
        rs == byday.r
        rm == bysec.r
        exact == rs = 0 /\ rm = 0
        days == IF ~us.neg THEN dm ELSE IF exact THEN -dm ELSE -(dm + 1)
        secs == IF ~us.neg \/ exact THEN rs
                ELSE IF rm = 0 THEN SecsPerDay - rs ELSE SecsPerDay - rs - 1
        micros == IF ~us.neg \/ rm = 0 THEN rm ELSE MicrosPerSec - rm
    IN IF DateAdd(days).kind = "Panic" THEN Panic
       ELSE Ok(NaiveDateTime(DateAdd(days).v.day, secs, micros * NanosPerMicro))

\* Decode for NaiveDateTime, binary format
TimestampDecode(value) ==
    LET us == IntDecodeAs("i64", value)
    IN IF us.kind = "Err" THEN Err ELSE TimestampAdd(us.v)

\* ClickHouseInterval
Interval(months, days, microseconds) ==
    [months |-> months, days |-> days, microseconds |-> microseconds]

\* The k decimal digits of n < 10^k.
PadDigits(n, k) == [i \in 1..k |-> (n \div (10 ^ (k - i))) % 10]

\* The number the last k digits write.
LastDigitsValue(ds, k) ==
    DigitsValue(SubSeq(ds, IF Len(ds) > k THEN Len(ds) - k + 1 ELSE 1, Len(ds)))

\* A std::time::Duration: whole seconds (u64, as decimal digits) and
\* nanoseconds below 10^9.  Duration::as_nanos and ::as_micros are u128.
StdDuration(secs, nanos) == [secs |-> secs, nanos |-> nanos]
AsNanos(d) == StripLeadingZeros(d.secs \o PadDigits(d.nanos, 9))
AsMicros(d) == StripLeadingZeros(d.secs \o PadDigits(d.nanos \div NanosPerMicro, 6))

\* (mutant) the nanoseconds are not looked at.
SubMicrosecondNever(nanos) == FALSE

\* value.as_nanos() % 1000 != 0
SubMicrosecond(nanos) == LastDigitsValue(nanos, 3) % NanosPerMicro # 0

\* TryFrom<std::time::Duration> for ClickHouseInterval
IntervalTryFromStd(value) ==
    IF SubMicrosecond(AsNanos(value)) THEN Err
    ELSE IF ~MagLeq(AsMicros(value), I64Max) THEN Err
    ELSE Ok(Interval(0, 0, Int64(FALSE, AsMicros(value))))

\* A chrono::Duration as num_seconds() and subsec_nanos() report it: both
\* of the duration's sign, here the sign and the two magnitudes.
ChronoDuration(neg, secs, nanos) == [neg |-> neg, secs |-> secs, nanos |-> nanos]

\* Option<i64>: a product and a sum that are checked.
CheckedI64(neg, mag) ==
    IF MagLeq(mag, IF neg THEN I64MinMag ELSE I64Max)
    THEN SomeOf(Int64(neg /\ mag # <<0>>, mag))
    ELSE NoneOf

\* chrono::Duration::num_nanoseconds and ::num_microseconds
DurationNumNanoseconds(d) ==
    CheckedI64(d.neg, StripLeadingZeros(d.secs \o PadDigits(d.nanos, 9)))
DurationNumMicroseconds(d) ==
    CheckedI64(d.neg, StripLeadingZeros(d.secs \o PadDigits(d.nanos \div NanosPerMicro, 6)))

\* TryFrom<chrono::Duration> for ClickHouseInterval
IntervalTryFromChrono(value) ==
    IF ~DurationNumNanoseconds(value).some THEN Err
    ELSE IF SubMicrosecond(DurationNumNanoseconds(value).v.mag) THEN Err
    ELSE IF ~DurationNumMicroseconds(value).some THEN Err
    ELSE Ok(Interval(0, 0, DurationNumMicroseconds(value).v))

\* Option<String>; a String is its UTF-8 bytes.
NoString == [some |-> FALSE, s |-> <<>>]
SomeString(s) == [some |-> TRUE, s |-> s]

RECURSIVE StrLess(_, _)
\* Ord for String: by bytes, a proper prefix first.
StrLess(a, b) ==
    IF b = <<>> THEN FALSE
    ELSE IF a = <<>> THEN TRUE
    ELSE IF Head(a) # Head(b) THEN Head(a) < Head(b)
    ELSE StrLess(Tail(a), Tail(b))

\* ClickHouseHstore(BTreeMap<String, Option<String>>): the entries in
\* ascending order of their keys.
Hstore(entries) == [entries |-> entries]
Entry(key, val) == [key |-> key, val |-> val]

RECURSIVE MapInsert(_, _, _)
\* BTreeMap::insert
MapInsert(entries, key, val) ==
    IF entries = <<>> THEN <<Entry(key, val)>>
    ELSE IF Head(entries).key = key THEN <<Entry(key, val)>> \o Tail(entries)
    ELSE IF StrLess(key, Head(entries).key) THEN <<Entry(key, val)>> \o entries
    ELSE <<Head(entries)>> \o MapInsert(Tail(entries), key, val)

\* What read_length and read_string return, and the buffer they leave.
ReadOk(x, rest) == [kind |-> "Ok", x |-> x, rest |-> rest]
ReadErr == [kind |-> "Err", x |-> Nothing, rest |-> <<>>]

\* read_length
ReadLength(buf) ==
    IF Len(buf) < 4 THEN ReadErr
    ELSE ReadOk(Small(ReadInt(SubSeq(buf, 1, 4))), SubSeq(buf, 5, Len(buf)))

\* read_string
ReadString(buf) ==
    LET len == ReadLength(buf)
    IN IF len.kind = "Err" THEN ReadErr
       ELSE IF len.x.n = -1 THEN ReadOk(NoString, len.rest)
       ELSE IF len.x.n < 0 THEN ReadErr
       ELSE IF Len(len.rest) < len.x.n THEN ReadErr
       ELSE IF ~Utf8Valid(SubSeq(len.rest, 1, len.x.n)) THEN ReadErr
       ELSE ReadOk(SomeString(SubSeq(len.rest, 1, len.x.n)),
                   SubSeq(len.rest, len.x.n + 1, Len(len.rest)))

RECURSIVE ReadEntries(_, _, _)
\* for i in 0..len { key; value; result.insert(key, value) }, with n
\* iterations to go.
ReadEntries(n, buf, result) ==
    IF n = 0 THEN Ok(Hstore(result))
    ELSE LET key == ReadString(buf)
         IN IF key.kind = "Err" THEN Err
            ELSE IF ~key.x.some THEN Err
            ELSE LET value == ReadString(key.rest)
                 IN IF value.kind = "Err" THEN Err
                    ELSE ReadEntries(n - 1, value.rest,
                                     MapInsert(result, key.x.s, value.x))

\* Decode for ClickHouseHstore
HstoreDecode(value) ==
    IF value.format = "Text" THEN Err
    ELSE IF AsBytes(value).kind = "Err" THEN Err
    ELSE LET len == ReadLength(value.bytes)
         IN IF len.kind = "Err" THEN Err
            ELSE IF len.x.n < 0 THEN Err
            ELSE ReadEntries(len.x.n, len.rest, <<>>)

\* (mutant) a NULL value is written as an empty one.
EncodeValueNullAsEmpty(val) == ToBeBytes(Len(val.s)) \o val.s

\* match val { Some(val) => length and bytes, None => -1 }
EncodeValue(val) ==
    IF val.some THEN ToBeBytes(Len(val.s)) \o val.s ELSE ToBeBytes(-1)

RECURSIVE EncodeEntries(_)
\* for (i, (key, val)) in self.0.iter().enumerate()
EncodeEntries(entries) ==
    IF entries = <<>> THEN <<>>
    ELSE ToBeBytes(Len(Head(entries).key)) \o Head(entries).key
            \o EncodeValue(Head(entries).val) \o EncodeEntries(Tail(entries))

\* Encode for ClickHouseHstore (lengths are far below i32::MAX here)
HstoreEncode(h) == Ok(Bytes(ToBeBytes(Len(h.entries)) \o EncodeEntries(h.entries)))

\* Characters of the lquery syntax.
Bang == 33
Percent == 37
Asterisk == 42
At == 64
UpperA == 65
UpperZ == 90
LowerA == 97
LowerZ == 122
LBrace == 123
Pipe == 124
RBrace == 125

\* ClickHouseLQueryVariantFlag; a flag set is the set of its flags.
ANY_END == 1
IN_CASE == 2
SUBLEXEME == 4

\* Option<u16>
NoU16 == [some |-> FALSE, n |-> 0]
SomeU16(n) == [some |-> TRUE, n |-> n]

\* ClickHouseLQueryVariant, ClickHouseLQueryLevel and ClickHouseLQuery
Variant(label, modifiers) == [label |-> label, modifiers |-> modifiers]
LevelStar(at_least, at_most) ==
    [kind |-> "Star", at_least |-> at_least, at_most |-> at_most, variants |-> <<>>]
LevelNonStar(variants) ==
    [kind |-> "NonStar", at_least |-> NoU16, at_most |-> NoU16, variants |-> variants]
LevelNotNonStar(variants) ==
    [kind |-> "NotNonStar", at_least |-> NoU16, at_most |-> NoU16, variants |-> variants]
LQuery(levels) == [levels |-> levels]

RECURSIVE DisplayU16(_)
\* Display for u16
DisplayU16(n) ==
    IF n < 10 THEN <<Digit0 + n>>
    ELSE DisplayU16(n \div 10) \o <<Digit0 + (n % 10)>>

\* Display for ClickHouseLQueryVariantFlag
DisplayFlags(modifiers) ==
    (IF ANY_END \in modifiers THEN <<Asterisk>> ELSE <<>>)
        \o (IF IN_CASE \in modifiers THEN <<At>> ELSE <<>>)
        \o (IF SUBLEXEME \in modifiers THEN <<Percent>> ELSE <<>>)

\* Display for ClickHouseLQueryVariant
DisplayVariant(variant) == variant.label \o DisplayFlags(variant.modifiers)

RECURSIVE DisplayJoined(_, _)
\* The variants, each behind the separator.
DisplayJoined(variants, sep) ==
    IF variants = <<>> THEN <<>>
    ELSE <<sep>> \o DisplayVariant(Head(variants)) \o DisplayJoined(Tail(variants), sep)

\* write_variants
WriteVariants(variants, not) ==
    IF variants = <<>> THEN <<>>
    ELSE (IF not THEN <<Bang>> ELSE <<>>) \o DisplayVariant(Head(variants))
            \o DisplayJoined(Tail(variants), Dot)

\* Display for ClickHouseLQueryLevel
DisplayLevel(level) ==
    CASE level.kind = "Star" /\ level.at_least.some /\ level.at_most.some ->
            IF level.at_least = level.at_most
            THEN <<Asterisk, LBrace>> \o DisplayU16(level.at_least.n) \o <<RBrace>>
            ELSE <<Asterisk, LBrace>> \o DisplayU16(level.at_least.n) \o <<Comma>>
                    \o DisplayU16(level.at_most.n) \o <<RBrace>>
      [] level.kind = "Star" /\ level.at_least.some /\ ~level.at_most.some ->
            <<Asterisk, LBrace>> \o DisplayU16(level.at_least.n) \o <<Comma, RBrace>>
      [] level.kind = "Star" /\ ~level.at_least.some /\ level.at_most.some ->
            <<Asterisk, LBrace, Comma>> \o DisplayU16(level.at_most.n) \o <<RBrace>>
      [] level.kind = "Star" /\ ~level.at_least.some /\ ~level.at_most.some ->
            <<Asterisk>>
      [] level.kind = "NonStar" -> WriteVariants(level.variants, FALSE)
      [] level.kind = "NotNonStar" -> WriteVariants(level.variants, TRUE)

RECURSIVE DisplayLevels(_)
DisplayLevels(levels) ==
    IF levels = <<>> THEN <<>>
    ELSE <<Dot>> \o DisplayLevel(Head(levels)) \o DisplayLevels(Tail(levels))

\* Display for ClickHouseLQuery
DisplayLQuery(q) ==
    IF q.levels = <<>> THEN <<>>
    ELSE DisplayLevel(Head(q.levels)) \o DisplayLevels(Tail(q.levels))

RECURSIVE Split(_, _)
\* str::split(c): the parts between the separators, at least one.
Split(s, c) ==
    IF \A i \in 1..Len(s) : s[i] # c THEN <<s>>
    ELSE LET i == CHOOSE i \in 1..Len(s) : s[i] = c /\ \A j \in 1..(i - 1) : s[j] # c
         IN <<SubSeq(s, 1, i - 1)>> \o Split(SubSeq(s, i + 1, Len(s)), c)

\* str::parse::<u16>(): an optional `+`, one or more digits, at most 65535.
ParseU16(text) ==
    LET body == IF text # <<>> /\ Head(text) = Plus THEN Tail(text) ELSE text
        mag == StripLeadingZeros([i \in 1..Len(body) |-> body[i] - Digit0])
    IN IF body = <<>> THEN Err
       ELSE IF \E i \in 1..Len(body) : body[i] < Digit0 \/ body[i] > Digit9 THEN Err
       ELSE IF ~MagLeq(mag, <<6, 5, 5, 3, 5>>) THEN Err
       ELSE Ok(Small(DigitsValue(mag)))

\* ClickHouseLTreeLabel::new: letters, digits and `_`, at most 256 bytes.
LTreeLabelNew(label) ==
    IF Len(label) <= 256
        /\ \A i \in 1..Len(label) :
              \/ label[i] >= Digit0 /\ label[i] <= Digit9
              \/ label[i] >= UpperA /\ label[i] <= UpperZ
              \/ label[i] >= LowerA /\ label[i] <= LowerZ
              \/ label[i] = Underscore
    THEN Ok(Bytes(label))
    ELSE Err

RECURSIVE LabelLength(_)
\* for b in s.bytes().rev(): the length left when the modifiers are taken
\* off the end.
LabelLength(s) ==
    IF s # <<>> /\ s[Len(s)] \in {At, Asterisk, Percent}
    THEN LabelLength(SubSeq(s, 1, Len(s) - 1))
    ELSE Len(s)

\* FromStr for ClickHouseLQueryVariant
VariantFromStr(s) ==
    LET label_length == LabelLength(s)
        tail == {s[i] : i \in (label_length + 1)..Len(s)}
        modifiers == (IF Asterisk \in tail THEN {ANY_END} ELSE {})
                        \cup (IF At \in tail THEN {IN_CASE} ELSE {})
                        \cup (IF Percent \in tail THEN {SUBLEXEME} ELSE {})
        label == LTreeLabelNew(SubSeq(s, 1, label_length))
    IN IF label.kind = "Err" THEN Err
       ELSE Ok(Variant(label.v.bytes, modifiers))

RECURSIVE Collect(_, _, _)
\* iter.map(parse).collect::<Result<Vec<_>, _>>(): the parsed items, or what
\* the first item that is not parsed leaves.
Collect(parts, parse(_), done) ==
    IF parts = <<>> THEN Ok([items |-> done])
    ELSE IF parse(Head(parts)).kind # "Ok" THEN parse(Head(parts))
    ELSE Collect(Tail(parts), parse, Append(done, parse(Head(parts)).v))

\* The Star arm of the level parser: `s[2..s.len() - 1]` panics on a text
\* of two bytes.
StarFromStr(s) ==
    IF Len(s) = 1 THEN Ok(LevelStar(NoU16, NoU16))
    ELSE IF Len(s) = 2 THEN Panic
    ELSE LET parts == Split(SubSeq(s, 3, Len(s) - 1), Comma)
         IN IF Len(parts) = 1
            THEN IF ParseU16(parts[1]).kind = "Err" THEN Err
                 ELSE Ok(LevelStar(SomeU16(ParseU16(parts[1]).v.n),
                                   SomeU16(ParseU16(parts[1]).v.n)))
            ELSE IF Len(parts) = 2
            THEN IF ParseU16(parts[1]).kind = "Err" \/ ParseU16(parts[2]).kind = "Err"
                 THEN Err
                 ELSE Ok(LevelStar(SomeU16(ParseU16(parts[1]).v.n),
                                   SomeU16(ParseU16(parts[2]).v.n)))
            ELSE Err

\* FromStr for ClickHouseLQueryLevel
LevelFromStr(s) ==
    IF s = <<>> THEN Err
    ELSE IF s[1] = Asterisk THEN StarFromStr(s)
    ELSE IF s[1] = Bang
    THEN LET vs == Collect(Split(Tail(s), Pipe), VariantFromStr, <<>>)
         IN IF vs.kind = "Ok" THEN Ok(LevelNotNonStar(vs.v.items)) ELSE vs
    ELSE LET vs == Collect(Split(s, Pipe), VariantFromStr, <<>>)
         IN IF vs.kind = "Ok" THEN Ok(LevelNonStar(vs.v.items)) ELSE vs

\* FromStr for ClickHouseLQuery
LQueryFromStr(s) ==
    LET levels == Collect(Split(s, Dot), LevelFromStr, <<>>)
    IN IF levels.kind = "Ok" THEN Ok(LQuery(levels.v.items)) ELSE levels

\* Encode for ClickHouseLQuery: the version byte, then the text
LQueryEncode(q) == Ok(Bytes(<<1>> \o DisplayLQuery(q)))

\* Decode for ClickHouseLQuery: `bytes[0]` panics on an empty value.
LQueryDecode(value) ==
    IF value.format = "Text"
    THEN IF AsStr(value).kind = "Err" THEN Err ELSE LQueryFromStr(value.bytes)
    ELSE IF AsBytes(value).kind = "Err" THEN Err
    ELSE IF value.bytes = <<>> THEN Panic
    ELSE IF value.bytes[1] # 1 THEN Err
    ELSE IF ~Utf8Valid(Tail(value.bytes)) THEN Err
    ELSE LQueryFromStr(Tail(value.bytes))

----------------------------------------------------------------------------
(* Inputs and steps of the scalar codecs                                   *)

Value(ty, v) == [ty |-> ty, v |-> v]
NoValue == Value("none", Nothing)

\* Integers at and around the edges of each width.
IntValues ==
    {Value("i16", Small(n)) : n \in {-32768, -257, -1, 0, 1, 255, 256, 32767}}
        \cup {Value("i32", Small(n)) : n \in {-2147483647 - 1, -65536, -1, 0, 1, 65535, 2147483647}}
        \cup {Value("i64", x) : x \in {Int64Zero, Int64(FALSE, <<1>>), Int64(TRUE, <<1>>),
                                       Int64(FALSE, I64Max), Int64(TRUE, I64MinMag),
                                       Int64(FALSE, <<4, 2, 9, 4, 9, 6, 7, 2, 9, 6>>),
                                       Int64(TRUE, I32MinMag)}}

\* Dates at and around the epoch and at the ends of NaiveDate.
DateValues ==
    {Value("date", Date(d)) : d \in {NaiveDateMin, NaiveDateMin + 1, PostgresEpochDate - 1,
                               PostgresEpochDate, PostgresEpochDate + 1, NaiveDateMax}}

TimestampValues ==
    {Value("timestamp", NaiveDateTime(d, s, n)) :
        d \in {NaiveDateMin, PostgresEpochDate - 1, PostgresEpochDate, NaiveDateMax},
        s \in {0, SecsPerDay - 1},
        n \in {0, 1, NanosPerMicro, NanosPerSec - 1}}

\* Buffers a server or a broken peer can send for an integer: every encoding
\* above, cut to its last k bytes, and buffers of zero and of nine bytes.
IntBuffers ==
    UNION {{SubSeq(IntEncode(x.ty, x.v), k, Len(IntEncode(x.ty, x.v))) :
                k \in 1..(Len(IntEncode(x.ty, x.v)) + 1)} : x \in IntValues}
        \cup {<<0, 0, 0, 0, 0, 0, 0, 0, 1>>, <<255, 255, 255, 255, 255, 255, 255, 255, 255>>}

IntWires ==
    {ValueRef(ty, "Binary", b) : ty \in {"i16", "i32", "i64"}, b \in IntBuffers}
        \cup {NullRef(ty, "Binary") : ty \in {"i16", "i32", "i64"}}

\* Texts of the "char" type: the empty text, plain characters, a two-byte
\* character, the octal escapes the server writes for the bytes from 0x80,
\* and malformed ones; also bytes that are not UTF-8.
CharTexts ==
    {<<>>, <<65>>, <<65, 66>>, <<127>>, <<195, 169>>, <<128>>, <<255>>,
     <<Backslash>>, <<Backslash, Backslash>>,
     <<Backslash, 49, 48, 49>>, <<Backslash, 48, 48, 49>>, <<Backslash, 49, 55, 55>>,
     <<Backslash, 50, 48, 48>>, <<Backslash, 51, 55, 55>>, <<Backslash, 50, 48, 49>>,
     <<Backslash, Minus, 49>>, <<Backslash, Minus, 50, 48, 48>>, <<Backslash, 56>>,
     <<Backslash, Backslash, 49, 50>>, <<Backslash, 52, 48, 48>>}

CharWires ==
    {ValueRef("i8", "Text", t) : t \in CharTexts}
        \cup {ValueRef("i8", "Binary", b) : b \in {<<>>, <<0>>, <<127>>, <<128>>, <<255>>,
                                                      <<0, 128>>, <<255, 128>>}}
        \cup {NullRef("i8", "Text")}

\* Day offsets over the whole i32, in buffers of every accepted length.
DateWires ==
    {ValueRef("date", "Binary", IntEncode("i32", Small(n))) :
        n \in {0, 1, -1, NaiveDateMax - PostgresEpochDate, NaiveDateMax - PostgresEpochDate + 1,
               NaiveDateMin - PostgresEpochDate, NaiveDateMin - PostgresEpochDate - 1,
               2147483647, -2147483647 - 1}}
        \cup {ValueRef("date", "Binary", b) :
                b \in {<<>>, <<1>>, <<255, 254>>, <<0, 0, 0, 0, 0, 0, 0, 7>>,
                       <<0, 0, 0, 1, 0, 0, 0, 0>>, <<0, 0, 0, 0, 0, 0, 0, 0, 0>>}}
        \cup {NullRef("date", "Binary")}

\* Microsecond offsets over the whole i64: the encodings of the timestamps
\* above, the offsets next to the last and before the first NaiveDateTime,
\* and the ends of i64.
TimestampWires ==
    {ValueRef("timestamp", "Binary", NumMicroseconds(x.v)) : x \in TimestampValues}
        \cup {ValueRef("timestamp", "Binary", MulAdd(NumMicroseconds(x.v), 1, 1)) :
                x \in {Value("timestamp", NaiveDateTime(NaiveDateMax, SecsPerDay - 1, NanosPerSec - 1))}}
        \cup {ValueRef("timestamp", "Binary", Negate(MulAdd(Negate(NumMicroseconds(x.v)), 1, 1))) :
                x \in {Value("timestamp", NaiveDateTime(NaiveDateMin, 0, 0))}}
        \cup {ValueRef("timestamp", "Binary", Int64ToBeBytes(x)) :
                x \in {Int64(FALSE, I64Max), Int64(TRUE, I64MinMag)}}
        \cup {ValueRef("timestamp", "Binary", b) :
                b \in {<<>>, <<1>>, <<255>>, <<0, 0, 0, 0, 0, 0, 0, 0, 0>>}}
        \cup {NullRef("timestamp", "Binary")}

\* Durations around one microsecond, around i64::MAX microseconds and
\* nanoseconds, and at the ends of the two types.
StdDurations ==
    {Value("std_duration", StdDuration(s, n)) :
        s \in {<<0>>, <<2, 7>>, <<9, 2, 2, 3, 3, 7, 2, 0, 3, 6, 8, 5, 4>>,
               <<9, 2, 2, 3, 3, 7, 2, 0, 3, 6, 8, 5, 5>>,
               <<2, 0, 0, 0, 0, 0, 0, 0, 0, 0, 0, 0, 0, 0>>,
               <<1, 8, 4, 4, 6, 7, 4, 4, 0, 7, 3, 7, 0, 9, 5, 5, 1, 6, 1, 5>>},
        n \in {0, 1, 999, NanosPerMicro, 27000001, 775807000, 775807001, 775808000,
               NanosPerSec - 1}}

\* chrono::Duration is within i64::MAX milliseconds of zero.
ChronoDurations ==
    {x \in {Value("chrono_duration", ChronoDuration(neg, s, n)) :
                neg \in BOOLEAN,
                s \in {<<0>>, <<2, 7>>, <<9, 2, 2, 3, 3, 7, 2, 0, 3, 6>>,
                       <<9, 2, 2, 3, 3, 7, 2, 0, 3, 7>>,
                       <<1, 0, 0, 0, 0, 0, 0, 0, 0, 0, 0>>,
                       <<9, 2, 2, 3, 3, 7, 2, 0, 3, 6, 8, 5, 4, 7, 7, 5>>},
                n \in {0, 1, NanosPerMicro, 27000001, 807000000, 854775000, 854775807,
                       854775808, 854776000}} :
        /\ x.v.neg => (x.v.secs # <<0>> \/ x.v.nanos # 0)
        /\ Len(x.v.secs) = 16 => x.v.nanos <= 807000000}

\* Keys and values of a map: empty, one and two bytes, a two-byte character.
HstoreKeys == {<<>>, <<97>>, <<98>>, <<97, 98>>, <<195, 169>>}
HstoreVals == {NoString, SomeString(<<>>), SomeString(<<120>>)}

\* The maps of up to MaxEntries entries.
MaxEntries == 2

RECURSIVE MapOf(_)
MapOf(pairs) ==
    IF pairs = <<>> THEN <<>>
    ELSE MapInsert(MapOf(Tail(pairs)), Head(pairs)[1], Head(pairs)[2])

Hstores ==
    {Hstore(MapOf(ps)) :
        ps \in UNION {[1..n -> HstoreKeys \X HstoreVals] : n \in 0..MaxEntries}}

HstoreValues == {Value("hstore", h) : h \in Hstores}

\* An encoding cut short anywhere.
StrictPrefixes(bytes) == {SubSeq(bytes, 1, k) : k \in 0..(Len(bytes) - 1)}

HstoreCut ==
    UNION {StrictPrefixes(HstoreEncode(h).v.bytes) :
            h \in {Hstore(<<>>), Hstore(<<Entry(<<97>>, NoString)>>),
                   Hstore(<<Entry(<<97>>, SomeString(<<120>>)),
                            Entry(<<98>>, SomeString(<<>>))>>)}}

\* A negative entry count; a NULL key; a key or a value longer than what is
\* left; a negative length.
HstoreNegativeCount == {ToBeBytes(-5), ToBeBytes(-1), ToBeBytes(-2147483647 - 1) \o <<0>>}
HstoreNullKey ==
    {ToBeBytes(1) \o ToBeBytes(-1), ToBeBytes(1) \o ToBeBytes(-1) \o ToBeBytes(-1),
     ToBeBytes(2) \o ToBeBytes(1) \o <<97>> \o ToBeBytes(-1) \o ToBeBytes(-1) \o ToBeBytes(0)}
HstoreOverlong ==
    {ToBeBytes(1) \o ToBeBytes(5) \o <<97>>,
     ToBeBytes(1) \o ToBeBytes(1) \o <<97>> \o ToBeBytes(2) \o <<120>>,
     ToBeBytes(1) \o ToBeBytes(2147483647) \o <<97>>,
     ToBeBytes(2147483647) \o ToBeBytes(1) \o <<97>> \o ToBeBytes(-1)}

\* Values the encoder does not write but a peer can send: keys out of order
\* or twice, bytes behind the last entry, a length of -2, bytes that are not
\* UTF-8, a NULL, the text format.
HstoreWires ==
    {ValueRef("hstore", "Binary", b) :
        b \in HstoreCut \cup HstoreNegativeCount \cup HstoreNullKey \cup HstoreOverlong
            \cup {ToBeBytes(2) \o ToBeBytes(1) \o <<98>> \o ToBeBytes(-1)
                        \o ToBeBytes(1) \o <<97>> \o ToBeBytes(0),
                   ToBeBytes(2) \o ToBeBytes(1) \o <<97>> \o ToBeBytes(-1)
                        \o ToBeBytes(1) \o <<97>> \o ToBeBytes(1) \o <<120>>,
                   ToBeBytes(0) \o <<7, 7>>,
                   ToBeBytes(1) \o ToBeBytes(-2),
                   ToBeBytes(1) \o ToBeBytes(1) \o <<255>> \o ToBeBytes(-1)}}
        \cup {NullRef("hstore", "Binary"), ValueRef("hstore", "Text", <<>>)}

\* Levels of every form: stars without, with one and with both bounds,
\* and lists of one and of two variants, plain and negated.
VariantA == Variant(<<LowerA>>, {})
VariantB == Variant(<<98, 95, 49>>, {ANY_END, SUBLEXEME})
VariantC == Variant(<<UpperZ>>, {IN_CASE})

Levels ==
    {LevelStar(NoU16, NoU16), LevelStar(SomeU16(1), SomeU16(1)),
     LevelStar(SomeU16(0), SomeU16(65535)), LevelStar(SomeU16(1), NoU16),
     LevelStar(NoU16, SomeU16(2)),
     LevelNonStar(<<VariantA>>), LevelNonStar(<<VariantB>>),
     LevelNonStar(<<VariantA, VariantC>>),
     LevelNotNonStar(<<VariantC>>), LevelNotNonStar(<<VariantB, VariantA>>)}

\* The queries of one to MaxLevels levels.
MaxLevels == 2

LQueries == {LQuery(ls) : ls \in UNION {[1..n -> Levels] : n \in 1..MaxLevels}}

LQueryValues == {Value("lquery", q) : q \in LQueries}

\* Texts the server can send and malformed ones: alternatives written with
\* `|`, open bounds, a star with one more character, an empty text and an
\* empty level, a character no label has; a value without a byte, with
\* another version byte, and bytes that are not UTF-8.
LQueryTexts ==
    {<<>>, <<Asterisk>>, <<Asterisk, LBrace, 49, RBrace>>,
     <<Asterisk, LBrace, 49, Comma, 50, RBrace>>, <<Asterisk, LBrace, 49, Comma, RBrace>>,
     <<Asterisk, LBrace, Comma, 50, RBrace>>, <<Asterisk, LBrace>>,
     <<Asterisk, LBrace, 49, Comma, 50, Comma, 51, RBrace>>,
     <<Asterisk, LBrace, 54, 53, 53, 51, 54, RBrace>>,
     <<LowerA, Pipe, 98>>, <<Bang, LowerA, Pipe, 98, Asterisk>>, <<LowerA, Dot, 98>>,
     <<LowerA, Dot, Dot, 98>>, <<LowerA, Minus, 98>>, <<LowerA, At, Percent, Asterisk, At>>,
     <<Bang>>, <<At>>}

LQueryWires ==
    {ValueRef("lquery", "Text", t) : t \in LQueryTexts}
        \cup {ValueRef("lquery", "Binary", <<1>> \o t) : t \in LQueryTexts}
        \cup {ValueRef("lquery", "Binary", b) : b \in {<<>>, <<2, LowerA>>, <<1, 255>>}}
        \cup {NullRef("lquery", "Binary")}

CodecValues ==
    IntValues \cup DateValues \cup TimestampValues \cup StdDurations \cup ChronoDurations
        \cup HstoreValues \cup LQueryValues

CodecWires ==
    IntWires \cup CharWires \cup DateWires \cup TimestampWires \cup HstoreWires
        \cup LQueryWires

\* A value to send, or a wire value to decode.
InitCodec ==
    /\ cres = Err
    /\ \/ cpc = "value" /\ cval \in CodecValues /\ cwire = NoValueRef
       \/ cpc = "wire" /\ cval = NoValue /\ cwire \in CodecWires

IdleCodec ==
    /\ cpc = "idle"
    /\ cval = NoValue
    /\ cwire = NoValueRef
    /\ cres = Err

\* What the encoder's Result leaves: the binary value sent, or nothing.
EncodeReturns(r) ==
    /\ cpc = "value"
    /\ cpc' = IF r.kind = "Ok" THEN "encoded" ELSE "refused"
    /\ cwire' = IF r.kind = "Ok" THEN ValueRef(cval.ty, "Binary", r.v.bytes) ELSE NoValueRef
    /\ cres' = r
    /\ UNCHANGED <<cval, nonCodecVars>>

\* What a conversion's Result leaves.
ConvertReturns(r) ==
    /\ cpc = "value"
    /\ cpc' = IF r.kind = "Ok" THEN "converted" ELSE "refused"
    /\ cres' = r
    /\ UNCHANGED <<cval, cwire, nonCodecVars>>

\* What the decoder's Result leaves.
DecodeReturns(r) ==
    /\ cpc \in {"wire", "encoded"}
    /\ cpc' = IF cpc = "wire" THEN "decoded" ELSE "returned"
    /\ cres' = r
    /\ UNCHANGED <<cval, cwire, nonCodecVars>>

\* <i16 | i32 | i64 as Encode>::encode_by_ref
IntEncodeStep ==
    /\ cval.ty \in {"i16", "i32", "i64"}
    /\ EncodeReturns(Ok(Bytes(IntEncode(cval.ty, cval.v))))

\* <i16 | i32 | i64 as Decode>::decode
IntDecodeStep ==
    /\ cwire.ty \in {"i16", "i32", "i64"}
    /\ DecodeReturns(IntDecodeAs(cwire.ty, cwire))

\* <i8 as Decode>::decode
CharDecodeStep ==
    /\ cwire.ty = "i8"
    /\ DecodeReturns(CharDecode(cwire))

\* <NaiveDate as Encode>::encode_by_ref
DateEncodeStep ==
    /\ cval.ty = "date"
    /\ EncodeReturns(DateEncode(cval.v))

\* <NaiveDate as Decode>::decode
DateDecodeStep ==
    /\ cwire.ty = "date"
    /\ DecodeReturns(DateDecode(cwire))

\* <NaiveDateTime as Encode>::encode_by_ref
TimestampEncodeStep ==
    /\ cval.ty = "timestamp"
    /\ EncodeReturns(TimestampEncode(cval.v))

\* <NaiveDateTime as Decode>::decode
TimestampDecodeStep ==
    /\ cwire.ty = "timestamp"
    /\ DecodeReturns(TimestampDecode(cwire))

\* ClickHouseInterval::try_from(std::time::Duration)
IntervalTryFromStdStep ==
    /\ cval.ty = "std_duration"
    /\ ConvertReturns(IntervalTryFromStd(cval.v))

\* ClickHouseInterval::try_from(chrono::Duration)
IntervalTryFromChronoStep ==
    /\ cval.ty = "chrono_duration"
    /\ ConvertReturns(IntervalTryFromChrono(cval.v))

\* <ClickHouseHstore as Encode>::encode_by_ref
HstoreEncodeStep ==
    /\ cval.ty = "hstore"
    /\ EncodeReturns(HstoreEncode(cval.v))

\* <ClickHouseHstore as Decode>::decode
HstoreDecodeStep ==
    /\ cwire.ty = "hstore"
    /\ DecodeReturns(HstoreDecode(cwire))

\* <ClickHouseLQuery as Encode>::encode_by_ref
LQueryEncodeStep ==
    /\ cval.ty = "lquery"
    /\ EncodeReturns(LQueryEncode(cval.v))

\* <ClickHouseLQuery as Decode>::decode
LQueryDecodeStep ==
    /\ cwire.ty = "lquery"
    /\ DecodeReturns(LQueryDecode(cwire))

NextCodec ==
    \/ IntEncodeStep
    \/ IntDecodeStep
    \/ CharDecodeStep
    \/ DateEncodeStep
    \/ DateDecodeStep
    \/ TimestampEncodeStep
    \/ TimestampDecodeStep
    \/ IntervalTryFromStdStep
    \/ IntervalTryFromChronoStep
    \/ HstoreEncodeStep
    \/ HstoreDecodeStep
    \/ LQueryEncodeStep
    \/ LQueryDecodeStep

----------------------------------------------------------------------------
(* Claims about the scalar codecs                                          *)

\* The decoder has returned, for a value of type ty.
DecodedAs(ty) == cpc \in {"decoded", "returned"} /\ cwire.ty = ty

\* The decoded date or timestamp is the epoch plus the offset on the wire.
EpochPlusOffset ==
    IF cwire.ty = "date"
    THEN cres.v.day - PostgresEpochDate = IntDecodeAs("i32", cwire).v.n
    ELSE /\ cres.v.nanos % NanosPerMicro = 0
         /\ Int64FromBytes(NumMicroseconds(cres.v)) = IntDecodeAs("i64", cwire).v

\* C21: binary decode of a DATE or a TIMESTAMP never panics; when it returns
\* a value, that is 2000-01-01 (00:00:00) plus the day or microsecond offset
\* on the wire; and a date or timestamp that was encoded decodes to itself.
C21_EpochOffsetExact ==
    (DecodedAs("date") \/ DecodedAs("timestamp")) =>
        /\ cres.kind # "Panic"
        /\ cres.kind = "Ok" => EpochPlusOffset
        /\ cpc = "returned" => cres = Ok(cval.v)

\* The day offset i32::MAX has been decoded as a date.
C21_Witness ==
    /\ DecodedAs("date")
    /\ cwire.bytes = <<127, 255, 255, 255>>
    /\ cres = Panic


\* The text is a backslash and three octal digits that write a byte.
IsOctalEscape(text) ==
    /\ Len(text) = 4
    /\ text[1] = Backslash
    /\ \A i \in 2..4 : text[i] >= Digit0 /\ text[i] <= Digit7
    /\ OctalValue(Tail(text)) <= 255

\* C22: text decode of the "char" type gives 0 for the empty text, the byte
\* an octal escape denotes as a wrapping i8 (-128..-1 for the escapes of
\* 0x80..0xFF), and else the first byte of the text as a wrapping i8.
C22_CharTextDecode ==
    (DecodedAs("i8") /\ cwire.format = "Text" /\ AsStr(cwire).kind = "Ok") =>
        /\ cwire.bytes = <<>> => cres = Ok(Small(0))
        /\ IsOctalEscape(cwire.bytes) =>
                cres = Ok(Small(AsI8(OctalValue(Tail(cwire.bytes)))))
        /\ (cwire.bytes # <<>> /\ cwire.bytes[1] # Backslash) =>
                cres = Ok(Small(AsI8(cwire.bytes[1])))

\* The escape of the byte 0x80, `\200`, has been decoded.
C22_Witness ==
    /\ DecodedAs("i8")
    /\ cwire.format = "Text"
    /\ cwire.bytes = <<Backslash, 50, 48, 48>>
    /\ cres = Err


\* The buffer widened to n bytes by repeating its sign bit.
SignExtend(buf, n) ==
    [i \in 1..(n - Len(buf)) |-> IF buf[1] >= 128 THEN 255 ELSE 0] \o buf

\* The byte width of an integer type, and a value of it as an i64's bytes.
WidthOf(ty) == CASE ty = "i8" -> 1 [] ty = "i16" -> 2 [] ty = "i32" -> 4 [] ty = "i64" -> 8

AsI64Bytes(ty, v) ==
    IF ty = "i64" THEN Int64ToBeBytes(v) ELSE SignExtend(ToBeBytes(v.n), 8)

\* The value the buffer writes is within the type: the buffer is the sign
\* extension of its last WidthOf(ty) bytes.
InRangeOf(ty, buf) ==
    \/ Len(buf) <= WidthOf(ty)
    \/ SignExtend(SubSeq(buf, Len(buf) - WidthOf(ty) + 1, Len(buf)), Len(buf)) = buf

\* C23: binary decode of an i16, i32 or i64 never panics; it is an error for
\* a NULL, for a buffer of 0 or of more than 8 bytes and for a value outside
\* the type, and else the sign-extended big-endian value of the buffer; an
\* integer that was encoded decodes to itself.
C23_IntBinaryDecode ==
    (cpc \in {"decoded", "returned"} /\ cwire.ty \in {"i16", "i32", "i64"}
        /\ cwire.format = "Binary") =>
        /\ cres.kind # "Panic"
        /\ cres.kind = "Err" <=>
                \/ cwire.null
                \/ Len(cwire.bytes) = 0
                \/ Len(cwire.bytes) > 8
                \/ ~InRangeOf(cwire.ty, cwire.bytes)
        /\ cres.kind = "Ok" => AsI64Bytes(cwire.ty, cres.v) = SignExtend(cwire.bytes, 8)
        /\ cpc = "returned" => cres = Ok(cval.v)

\* i16::MIN has been encoded and decoded again.
C23_Witness ==
    /\ cpc = "returned"
    /\ cval = Value("i16", Small(-32768))
    /\ cwire.bytes = <<128, 0>>
    /\ cres = Ok(Small(-32768))


\* The duration in nanoseconds, and whether its whole microseconds fit i64.
DurationNanos(d) == StripLeadingZeros(d.secs \o PadDigits(d.nanos, 9))

DurationNegative(x) == x.ty = "chrono_duration" /\ x.v.neg

MicrosFitI64(x) ==
    MagLeq(StripLeadingZeros(x.v.secs \o PadDigits(x.v.nanos \div 1000, 6)),
           IF DurationNegative(x) THEN I64MinMag ELSE I64Max)

\* The conversion of a duration to an interval has returned.
Converted == cpc \in {"converted", "refused"}
                /\ cval.ty \in {"std_duration", "chrono_duration"}

\* C24: a duration converted to an interval has months = days = 0 and
\* microseconds * 1000 equal to its nanoseconds; a duration with a part
\* below one microsecond, or with more microseconds than an i64 holds, is
\* an error.
C24_NoPrecisionLoss ==
    Converted =>
        /\ cres.kind # "Panic"
        /\ cres.kind = "Ok" =>
                /\ cres.v.months = 0
                /\ cres.v.days = 0
                /\ cres.v.microseconds.neg = DurationNegative(cval)
                /\ StripLeadingZeros(cres.v.microseconds.mag \o <<0, 0, 0>>)
                        = DurationNanos(cval.v)
        /\ cval.v.nanos % 1000 # 0 => cres.kind = "Err"
        /\ ~MicrosFitI64(cval) => cres.kind = "Err"

\* Minus 27 seconds and 1000 nanoseconds have become -27_000_001
\* microseconds.
C24_Witness ==
    /\ cpc = "converted"
    /\ cval = Value("chrono_duration", ChronoDuration(TRUE, <<2, 7>>, 1000))
    /\ cres = Ok(Interval(0, 0, Int64(TRUE, <<2, 7, 0, 0, 0, 0, 0, 1>>)))


\* A string behind its signed 32-bit length.
LengthPrefixed(s) == ToBeBytes(Len(s)) \o s

\* The entries are in ascending order of their keys.
Ascending(entries) ==
    \A i \in 1..(Len(entries) - 1) : StrLess(entries[i].key, entries[i + 1].key)

RECURSIVE WireEntries(_)
\* Per entry the length-prefixed key and the length-prefixed value, -1 for
\* the length of a NULL.
WireEntries(entries) ==
    IF entries = <<>> THEN <<>>
    ELSE LengthPrefixed(Head(entries).key)
            \o (IF Head(entries).val.some THEN LengthPrefixed(Head(entries).val.s)
                ELSE <<255, 255, 255, 255>>)
            \o WireEntries(Tail(entries))

\* C25: a map that was encoded decodes to itself; its wire form is the
\* entry count and the entries in ascending key order, each a
\* length-prefixed key and value with length -1 for NULL; decode never
\* panics, and a negative count, a NULL key, a length beyond the remaining
\* bytes and an encoding cut short are decode errors.
C25_HstoreRoundTrip ==
    /\ (cpc \in {"encoded", "returned"} /\ cval.ty = "hstore") =>
            /\ Ascending(cval.v.entries)
            /\ cwire.format = "Binary"
            /\ cwire.bytes = ToBeBytes(Len(cval.v.entries)) \o WireEntries(cval.v.entries)
    /\ (cpc = "returned" /\ cval.ty = "hstore") => cres = Ok(cval.v)
    /\ DecodedAs("hstore") =>
            /\ cres.kind # "Panic"
            /\ cwire.bytes \in HstoreCut \cup HstoreNegativeCount \cup HstoreNullKey
                                    \cup HstoreOverlong
                    => cres.kind = "Err"

\* A map with a NULL and an empty value has been encoded and decoded again.
C25_Witness ==
    /\ cpc = "returned"
    /\ cval = Value("hstore", Hstore(<<Entry(<<97>>, NoString), Entry(<<97, 98>>, SomeString(<<>>))>>))
    /\ cres = Ok(cval.v)


\* C30: an lquery that was encoded decodes to itself: parsing the text
\* Display wrote behind the version byte gives the same levels, a level of
\* several variants staying one level.
C30_LQueryRoundTrip ==
    /\ (cpc \in {"encoded", "returned"} /\ cval.ty = "lquery") =>
            cwire.bytes = <<1>> \o DisplayLQuery(cval.v)
    /\ (cpc = "returned" /\ cval.ty = "lquery") =>
            /\ cres = Ok(cval.v)
            /\ Len(cres.v.levels) = Len(cval.v.levels)

\* A level of the two alternatives `a` and `Z@` has been encoded and decoded
\* again, as the two levels `a` and `Z@`.
C30_Witness ==
    /\ cpc = "returned"
    /\ cval = Value("lquery", LQuery(<<LevelNonStar(<<VariantA, VariantC>>)>>))
    /\ cwire.bytes = <<1, LowerA, Dot, UpperZ, At>>
    /\ cres = Ok(LQuery(<<LevelNonStar(<<VariantA>>), LevelNonStar(<<VariantC>>)>>))

----------------------------------------------------------------------------
(* Claims about the elements of a range literal                            *)

\* An element of a literal: absent, bare, or double-quoted; and the bound it
\* stands for behind or before the boundary character ch.
ElementTexts == {<<>>, <<49>>, <<Quote, 49, Quote>>}

BoundOf(ch, element) ==
    IF element = <<>> THEN Unbounded
    ELSE IF ch \in {LParen, RParen} THEN Excluded(1)
    ELSE Included(1)

\* C29: in text decode each side of a literal is decided by its own
\* element: an empty unquoted element is Unbounded whatever the other one
\* is, so `["1",)` is a range bounded below and unbounded above.
C29_EmptyElementIsUnbounded ==
    DecodedText =>
        \A lo \in {LBracket, LParen}, hi \in {RBracket, RParen} :
            \A e1 \in ElementTexts, e2 \in ElementTexts :
                rwire.bytes = <<lo>> \o e1 \o <<Comma>> \o e2 \o <<hi>> =>
                    rres = RangeOk(BoundOf(lo, e1), BoundOf(hi, e2))

\* The literal `["1",)` has been decoded.
C29_Witness ==
    /\ DecodedText
    /\ rwire.bytes = <<LBracket, Quote, 49, Quote, Comma, RParen>>
    /\ rres = RangeErr

----------------------------------------------------------------------------
(* Part 6: transactions (transaction.rs).  begin() is split at its await;  *)
(* commit() and rollback() hand one statement to the connection and then   *)
(* learn whether the server accepted it.                                   *)

MaxDepth == 2

MaxTxOps == 4

\* sqlx_core::transaction: BEGIN at depth 0, SAVEPOINT _sqlx_savepoint_<depth>
\* otherwise.  Either way the statement opens nesting level depth + 1.
begin_ansi_transaction_sql(depth) == [stmt |-> "begin", level |-> depth + 1]

\* COMMIT at depth 1, RELEASE SAVEPOINT _sqlx_savepoint_<depth - 1> otherwise.
commit_ansi_transaction_sql(depth) == [stmt |-> "commit", level |-> depth]

\* ROLLBACK at depth 1, ROLLBACK TO SAVEPOINT _sqlx_savepoint_<depth - 1>
\* otherwise: the statement undoes nesting level depth.
rollback_ansi_transaction_sql(depth) == [stmt |-> "rollback", level |-> depth]

\* A connection's depth and the statements a call queued on it.
TxConn(depth, queued) == [depth |-> depth, queued |-> queued]

\* ClickHouseConnection::queue_simple_query, when it returns Ok.
queue_simple_query(conn, query) == TxConn(conn.depth, Append(conn.queued, query))

start_rollback(conn) ==
    IF conn.depth > 0
    THEN LET queued == queue_simple_query(conn, rollback_ansi_transaction_sql(conn.depth))
         IN  TxConn(queued.depth - 1, queued.queued)
    ELSE conn

\* impl Drop for Rollback
RollbackDrop(defuse, conn) == IF ~defuse THEN start_rollback(conn) ELSE conn

\* Rollback::defuse sets the flag on the guard it consumes, which is then
\* dropped with the flag set.
RollbackDefuse(conn) == RollbackDrop(TRUE, conn)

InitTx ==
    /\ transaction_depth = 0
    /\ txlog = <<>>
    /\ bpc = "idle"
    /\ bd = 0
    /\ bret = "none"
    /\ bq = <<>>
    /\ txOps = 0

\* begin() leaves the connection as conn and returns (or is dropped) as r;
\* the first `logged` statements it queued are in the log already.
BeginEnds(conn, logged, r) ==
    /\ transaction_depth' = conn.depth
    /\ bq' = conn.queued
    /\ txlog' = txlog \o SubSeq(conn.queued, logged + 1, Len(conn.queued))
    /\ bpc' = "returned"
    /\ bret' = r

\* begin(), lines 18-22 up to the await: the guard is made, the statement is
\* queued and the depth raised; if queueing fails, `?` returns and the guard
\* is dropped armed.
BeginCall ==
    /\ bpc # "waiting"
    /\ txOps < MaxTxOps
    /\ transaction_depth < MaxDepth
    /\ txOps' = txOps + 1
    /\ bd' = transaction_depth
    /\ LET conn == TxConn(transaction_depth, <<>>)
           query == begin_ansi_transaction_sql(conn.depth)
       IN  \E queues \in BOOLEAN :
               IF queues
               THEN LET queued == queue_simple_query(conn, query)
                    IN  /\ transaction_depth' = queued.depth + 1
                        /\ bq' = queued.queued
                        /\ txlog' = txlog \o queued.queued
                        /\ bpc' = "waiting"
                        /\ bret' = "none"
               ELSE BeginEnds(RollbackDrop(FALSE, conn), 0, "Err")
    /\ UNCHANGED nonTxVars

\* wait_until_ready() returns Ok: the guard is defused and begin returns Ok.
BeginReady ==
    /\ bpc = "waiting"
    /\ BeginEnds(RollbackDefuse(TxConn(transaction_depth, bq)), Len(bq), "Ok")
    /\ UNCHANGED <<bd, txOps, nonTxVars>>

\* wait_until_ready() returns Err: `?` returns and the guard is dropped armed.
BeginWaitFails ==
    /\ bpc = "waiting"
    /\ BeginEnds(RollbackDrop(FALSE, TxConn(transaction_depth, bq)), Len(bq), "Err")
    /\ UNCHANGED <<bd, txOps, nonTxVars>>

\* The future is dropped at its await: the guard is dropped armed.
BeginCancelled ==
    /\ bpc = "waiting"
    /\ BeginEnds(RollbackDrop(FALSE, TxConn(transaction_depth, bq)), Len(bq), "dropped")
    /\ UNCHANGED <<bd, txOps, nonTxVars>>

\* Another call on the connection: what begin() left behind is history.
OtherCall ==
    /\ bpc # "waiting"
    /\ txOps < MaxTxOps
    /\ txOps' = txOps + 1
    /\ bpc' = "idle"
    /\ bret' = "none"
    /\ bq' = <<>>
    /\ UNCHANGED <<bd, nonTxVars>>

CommitStep ==
    /\ OtherCall
    /\ IF transaction_depth > 0
       THEN /\ txlog' = Append(txlog, commit_ansi_transaction_sql(transaction_depth))
            /\ \E ok \in BOOLEAN :
                   transaction_depth' = IF ok THEN transaction_depth - 1
                                        ELSE transaction_depth
       ELSE UNCHANGED <<txlog, transaction_depth>>

RollbackStep ==
    /\ OtherCall
    /\ IF transaction_depth > 0
       THEN /\ txlog' = Append(txlog, rollback_ansi_transaction_sql(transaction_depth))
            /\ \E ok \in BOOLEAN :
                   transaction_depth' = IF ok THEN transaction_depth - 1
                                        ELSE transaction_depth
       ELSE UNCHANGED <<txlog, transaction_depth>>

\* Transaction::drop without commit or rollback.
StartRollbackStep ==
    /\ OtherCall
    /\ LET conn == start_rollback(TxConn(transaction_depth, <<>>))
       IN  /\ transaction_depth' = conn.depth
           /\ txlog' = txlog \o conn.queued

NextTx ==
    \/ BeginCall
    \/ BeginReady
    \/ BeginWaitFails
    \/ BeginCancelled
    \/ CommitStep
    \/ RollbackStep
    \/ StartRollbackStep

----------------------------------------------------------------------------
(* Claims about transactions                                               *)

\* Level n is open when begin() is called at depth d, for n in 1..d.
EnclosingLevel(n) == n \in 1..bd

RolledBackByBegin(n) ==
    \E i \in 1..Len(bq) : bq[i] = rollback_ansi_transaction_sql(n)

\* C28: when begin() does not complete successfully at nesting depth d (the
\* begin statement cannot be queued, waiting for the server fails, or the
\* call is cancelled), transaction_depth is d again afterwards and no
\* rollback of an enclosing level 1..d has been queued; when begin() returns
\* Ok, transaction_depth is d + 1.
C28_FailedBeginKeepsDepth ==
    bpc = "returned" =>
        /\ bret \in {"Err", "dropped"} =>
               /\ transaction_depth = bd
               /\ \A n \in 1..MaxDepth : EnclosingLevel(n) => ~RolledBackByBegin(n)
        /\ bret = "Ok" => transaction_depth = bd + 1

\* begin() fails to queue its statement inside an open transaction.
C28_Witness ==
    /\ bpc = "returned"
    /\ bret = "Err"
    /\ bd = 1
    /\ ~(\E i \in 1..Len(bq) : bq[i].stmt = "begin")

----------------------------------------------------------------------------
(* Part 7: get_release_query() under concurrent drops (advisory_lock.rs).  *)
(* The lock is shared by reference between guards that live on different   *)
(* connections, and each thread drops its guards in turn.  get_or_init of  *)
(* once_cell::sync::OnceCell is split at its atomic steps: the fast-path   *)
(* read, the claim of the initialisation, the closure with the store.      *)

Threads == {"t1", "t2"}

MaxDrops == 2

OnceCell(state, value) == [state |-> state, value |-> value]

\* OnceCell::new
OnceCellNew == OnceCell("Incomplete", <<>>)

\* OnceCell::get: Some only once the value is stored.
OnceCellGet(cell) == IF cell.state = "Complete" THEN cell.value ELSE <<>>

\* (mutant) a thread starts the closure although another one is running it.
CanInitializeWhileRunning(cell) == cell.state # "Complete"

\* initialize_or_wait: the thread that moves the cell from Incomplete to
\* Running runs the closure; a thread that finds it Running waits.
CanInitialize(cell) == cell.state = "Incomplete"

IdleDrops ==
    /\ dkey = BigInt(1)
    /\ once = OnceCellNew
    /\ computed = 0
    /\ dpc = [t \in Threads |-> "idle"]
    /\ dgot = [t \in Threads |-> <<>>]
    /\ dqueue = [t \in Threads |-> <<>>]
    /\ drops = [t \in Threads |-> 0]

InitDrops ==
    /\ dkey \in Keys
    /\ once = OnceCellNew
    /\ computed = 0
    /\ dpc = [t \in Threads |-> "idle"]
    /\ dgot = [t \in Threads |-> <<>>]
    /\ dqueue = [t \in Threads |-> <<>>]
    /\ drops = [t \in Threads |-> 0]

\* Drop::drop: the slot holds a connection, so get_release_query() is called.
DropBegin(t) ==
    /\ dpc[t] = "idle"
    /\ drops[t] < MaxDrops
    /\ dpc' = [dpc EXCEPT ![t] = "get"]
    /\ UNCHANGED <<dkey, once, computed, dgot, dqueue, drops, nonDropVars>>

\* get_or_init: `if let Some(value) = self.get() { return value }`.
GetFast(t) ==
    /\ dpc[t] = "get"
    /\ IF OnceCellGet(once) # <<>>
       THEN /\ dgot' = [dgot EXCEPT ![t] = OnceCellGet(once)]
            /\ dpc' = [dpc EXCEPT ![t] = "queue"]
       ELSE /\ dpc' = [dpc EXCEPT ![t] = "slow"]
            /\ UNCHANGED dgot
    /\ UNCHANGED <<dkey, once, computed, dqueue, drops, nonDropVars>>

\* The slow path wins the initialisation.
SlowClaim(t) ==
    /\ dpc[t] = "slow"
    /\ CanInitialize(once)
    /\ once' = OnceCell("Running", once.value)
    /\ dpc' = [dpc EXCEPT ![t] = "init"]
    /\ UNCHANGED <<dkey, computed, dgot, dqueue, drops, nonDropVars>>

\* The slow path finds the value stored by another thread, after waiting if
\* the cell was Running.
SlowDone(t) ==
    /\ dpc[t] = "slow"
    /\ OnceCellGet(once) # <<>>
    /\ dgot' = [dgot EXCEPT ![t] = OnceCellGet(once)]
    /\ dpc' = [dpc EXCEPT ![t] = "queue"]
    /\ UNCHANGED <<dkey, once, computed, dqueue, drops, nonDropVars>>

\* The closure of get_release_query runs and its string is stored.
InitRun(t) ==
    /\ dpc[t] = "init"
    /\ once' = OnceCell("Complete", <<FormatReleaseQuery(dkey)>>)
    /\ computed' = computed + 1
    /\ dgot' = [dgot EXCEPT ![t] = <<FormatReleaseQuery(dkey)>>]
    /\ dpc' = [dpc EXCEPT ![t] = "queue"]
    /\ UNCHANGED <<dkey, dqueue, drops, nonDropVars>>

\* Drop::drop: conn.as_mut().queue_simple_query(self.lock.get_release_query()).
DropQueue(t) ==
    /\ dpc[t] = "queue"
    /\ dqueue' = [dqueue EXCEPT ![t] = QueueSimpleQuery(@, dgot[t][1])]
    /\ drops' = [drops EXCEPT ![t] = @ + 1]
    /\ dpc' = [dpc EXCEPT ![t] = "idle"]
    /\ UNCHANGED <<dkey, once, computed, dgot, nonDropVars>>

NextDrops ==
    \/ \E t \in Threads : DropBegin(t)
    \/ \E t \in Threads : GetFast(t)
    \/ \E t \in Threads : SlowClaim(t)
    \/ \E t \in Threads : SlowDone(t)
    \/ \E t \in Threads : InitRun(t)
    \/ \E t \in Threads : DropQueue(t)

----------------------------------------------------------------------------
(* Claims about the release query                                          *)

\* `SELECT pg_advisory_unlock(k)` for a single key, `(k1, k2)` for a pair.
UnlockOf(key) ==
    [text |-> "SELECT pg_advisory_unlock",
     args |-> IF key = BigInt(key[2]) THEN <<key[2]>> ELSE <<key[2], key[3]>>]

\* C26: the release query of a lock is computed at most once, and every
\* call of get_release_query() returns the same string, which is the unlock
\* statement of the lock's key; guards of the lock dropped concurrently by
\* different threads each queue that string.
C26_ReleaseQueryComputedOnce ==
    /\ computed <= 1
    /\ \A t \in Threads :
           /\ dpc[t] = "queue" => dgot[t] = <<UnlockOf(dkey)>>
           /\ \A i \in 1..Len(dqueue[t]) : dqueue[t][i] = UnlockOf(dkey)

\* Two threads are in drop() at once, both holding the string, after one of
\* them computed it.
C26_Witness ==
    /\ dpc["t1"] = "queue"
    /\ dpc["t2"] = "queue"
    /\ drops["t1"] = 0
    /\ drops["t2"] = 0
    /\ computed = 1

----------------------------------------------------------------------------
(* Claims about the advisory-lock guard                                    *)

Guards == DOMAIN guards

\* The textual unlock command for key, written out.
UnlockText(key) ==
    IF key = BigInt(1)
    THEN [text |-> "SELECT pg_advisory_unlock", args |-> <<1>>]
    ELSE [text |-> "SELECT pg_advisory_unlock", args |-> <<1, 2>>]

\* The unlock request for key as the server sees it.
UnlockOnWire(key, awaited) ==
    [fn |-> "pg_advisory_unlock",
     args |-> IF key = BigInt(1) THEN <<1>> ELSE <<1, 2>>,
     awaited |-> awaited]

RECURSIVE CountUnlocks(_, _)
\* Number of unlock requests / queued unlock commands for key in sequence q.
CountUnlocks(q, key) ==
    IF q = <<>> THEN 0
    ELSE (IF Head(q).args = UnlockOnWire(key, FALSE).args
             /\ ("fn" \in DOMAIN Head(q) => Head(q).fn = "pg_advisory_unlock")
          THEN 1 ELSE 0) + CountUnlocks(Tail(q), key)

\* The step in which the call in progress on c returns its value.
Returns(c, op) ==
    /\ inflight[c].op = op
    /\ inflight[c].phase = "answered"
    /\ inflight'[c].op = "idle"
    /\ ret'[c].via = "Return"

\* C1: for every guard, over all its operations, at most one unlock is issued
\* (sent by release_now or queued by drop), its slot goes from Some to None
\* exactly once, and once the slot is None the guard queues no unlock.
C1_AtMostOneUnlock ==
    /\ [](\A g \in Guards :
            /\ guards[g].issued <= 1
            /\ guards[g].takes <= 1
            /\ (guards[g].conn = None) <=> (guards[g].takes = 1)
            /\ (guards[g].st # "Acquired") => guards[g].conn = None)
    /\ [][\A g \in Guards :
            guards[g].conn = None =>
                /\ guards'[g].conn = None
                /\ guards'[g].issued = guards[g].issued
                /\ \A c \in Conns :
                      guards[g].st \in {"Releasing", "Leaked"}
                      /\ guards'[g].st # guards[g].st
                          => outbuf'[c] = outbuf[c]]_vars

\* C1 witness: a release_now failed, its guard was then dropped, and exactly
\* one unlock had been issued for it.
C1_Witness ==
    \E g \in Guards :
        guards[g].st = "ReleaseErr" /\ guards[g].issued = 1 /\ guards[g].takes = 1

\* C3: dropping a guard that holds its connection appends exactly the textual
\* unlock of its own key to the outbound buffer and sends nothing; the hold
\* count of the connection only ever falls, by one, when the server executes
\* an unlock that was written to the socket, and the use that empties the
\* buffer writes the queued commands, in order, behind what was written before.
C3_DropQueuesUnlock ==
    /\ [][\A g \in Guards :
            guards[g].st = "Acquired" /\ guards'[g].st = "Dropped" =>
                LET c == guards[g].conn IN
                /\ outbuf'[c] = Append(outbuf[c], UnlockText(guards[g].lock))
                /\ wire' = wire
                /\ held' = held]_vars
    /\ [][\A c \in Conns, k \in Keys :
            held'[c][k] < held[c][k] =>
                /\ wire[c] # <<>>
                /\ Head(wire[c]).fn = "pg_advisory_unlock"
                /\ Head(wire[c]).args = UnlockOnWire(k, FALSE).args
                /\ held'[c][k] = held[c][k] - 1]_vars
    /\ [][\A c \in Conns :
            outbuf[c] # <<>> /\ outbuf'[c] = <<>> =>
                /\ Len(wire'[c]) >= Len(wire[c]) + Len(outbuf[c])
                /\ \A i \in 1..Len(outbuf[c]) :
                      wire'[c][Len(wire[c]) + i] =
                          [fn |-> "pg_advisory_unlock", args |-> outbuf[c][i].args,
                           awaited |-> FALSE]]_vars

\* C3 witness: a guard was dropped, its unlock is queued and not sent, and the
\* server still holds the lock for the connection.
C3_Witness ==
    \E g \in Guards, c \in Conns :
        /\ guards[g].st = "Dropped"
        /\ outbuf[c] = <<UnlockText(guards[g].lock)>>
        /\ wire[c] = <<>>
        /\ held[c][guards[g].lock] = 1

\* C4: when the server answers false to try_acquire, the call returns
\* Ok(Either::Right(conn)) with the caller's connection, builds no guard and
\* changes neither the outbound buffer nor what is written to the socket; no
\* guard is ever built on a false answer, so nothing unlocks for it later.
C4_TryAcquireFalse ==
    /\ [][\A c \in Conns :
            Returns(c, "try_acquire") /\ inflight[c].resp = FALSE =>
                /\ ret'[c].result = "Ok"
                /\ ret'[c].either = "Right"
                /\ ret'[c].conn = c
                /\ guards' = guards
                /\ wrap' = wrap
                /\ outbuf' = outbuf
                /\ wire' = wire
                /\ unl' = unl]_vars
    /\ [](\A g \in Guards : guards[g].granted = TRUE)

\* C4 witness: try_acquire returned Right(conn) on a false answer.
C4_Witness ==
    \E c \in Conns :
        /\ ret[c].op = "try_acquire"
        /\ ret[c].via = "Return"
        /\ ret[c].resp = FALSE
        /\ ret[c].either = "Right"
        /\ guards = <<>>

\* Unlocks for key issued on c that have not reached the server yet.
PendingUnlocks(c, key) ==
    CountUnlocks(wire[c], key) + CountUnlocks(outbuf[c], key)

\* The server makes session c wait: its next request is a blocking lock of a
\* key another session holds.
Waits(c) ==
    /\ wire[c] # <<>>
    /\ Head(wire[c]).fn = "pg_advisory_lock"
    /\ HeldElsewhere(c, ArgsKey(Head(wire[c]).args))

\* C5: a connection is never refused or made to wait for a key it already
\* holds; each unlock executed by the server lowers the hold count of its key
\* by exactly one and of no other key, so the count is at least the number of
\* acquisitions that returned a guard minus the unlocks that reached the
\* server: after k acquisitions the key is free only after k unlocks.
C5_ReentrantCounting ==
    /\ [](\A c \in Conns, k \in Keys :
            /\ held[c][k] >= acq[c][k] - (unl[c][k] - PendingUnlocks(c, k))
            /\ (inflight[c].op = "try_acquire" /\ inflight[c].lock = k
                    /\ inflight[c].phase = "answered" /\ inflight[c].resp = FALSE)
                  => held[c][k] = 0
            /\ (Waits(c) /\ ArgsKey(Head(wire[c]).args) = k) => held[c][k] = 0)
    /\ [][\A c \in Conns, k \in Keys :
            (wire[c] # <<>> /\ wire'[c] = Tail(wire[c])
                /\ inflight'[c].op = inflight[c].op
                /\ Head(wire[c]) = UnlockOnWire(k, Head(wire[c]).awaited)) =>
                /\ held'[c][k] = IF held[c][k] > 0 THEN held[c][k] - 1 ELSE 0
                /\ \A j \in Keys \ {k} : held'[c][j] = held[c][j]]_vars

\* C5 witness: two acquisitions of one key on the connection, then a single
\* force_release that the server answered true: the key is still held.
C5_Witness ==
    \E c \in Conns, k \in Keys :
        /\ acq[c][k] = 2
        /\ unl[c][k] = 1
        /\ ret[c].op = "force_release"
        /\ ret[c].via = "Return"
        /\ ret[c].resp = TRUE
        /\ held[c][k] = 1

\* C6: leak() hands back the wrapped connection and changes neither the
\* outbound buffer, nor what is written to the socket, nor the server's hold
\* counts; a leaked guard never has an unlock issued for it.
C6_LeakFrame ==
    /\ [][\A g \in Guards :
            guards[g].st = "Acquired" /\ guards'[g].st = "Leaked" =>
                LET c == guards[g].conn IN
                /\ ret'[c].op = "leak"
                /\ ret'[c].conn = c
                /\ outbuf' = outbuf
                /\ wire' = wire
                /\ held' = held
                /\ unl' = unl]_vars
    /\ [](\A g \in Guards :
            guards[g].st = "Leaked" => guards[g].issued = 0 /\ guards[g].conn = None)

\* C6 witness: a guard was leaked, nothing is queued or written, and the
\* server still holds its key for the connection.
C6_Witness ==
    \E g \in Guards, c \in Conns :
        /\ guards[g].st = "Leaked"
        /\ ret[c].op = "leak"
        /\ outbuf[c] = <<>>
        /\ wire[c] = <<>>
        /\ held[c][guards[g].lock] = 1

\* C7: release_now writes exactly one awaited unlock for the lock's key
\* (behind what was queued); when the round trip completes it returns
\* Ok(conn), also on the answer false, and then logs one warning and nothing
\* else; it ends in an error only when the round trip failed.
C7_ReleaseNow ==
    /\ [][\A g \in Guards :
            guards[g].st = "Acquired" /\ guards'[g].st = "Releasing" =>
                LET c == guards[g].conn IN
                /\ wire'[c] = (wire[c] \o Flushed(outbuf[c]))
                                 \o <<UnlockOnWire(guards[g].lock, TRUE)>>
                /\ outbuf'[c] = <<>>]_vars
    /\ [][\A c \in Conns :
            Returns(c, "release_now") =>
                /\ ret'[c].result = "Ok"
                /\ ret'[c].conn = c
                /\ warnings' = warnings + (IF inflight[c].resp THEN 0 ELSE 1)
                /\ wire' = wire
                /\ outbuf' = outbuf]_vars
    /\ [](\A c \in Conns :
            ret[c].op = "release_now" /\ ret[c].result = "Err" => ret[c].via = "Err")

\* C7 witness: release_now returned Ok(conn) although the server answered
\* false, and one warning was logged.
C7_Witness ==
    \E c \in Conns :
        /\ ret[c].op = "release_now"
        /\ ret[c].via = "Return"
        /\ ret[c].resp = FALSE
        /\ ret[c].result = "Ok"
        /\ ret[c].conn = c
        /\ warnings = 1

\* The step in which the call in progress on c ends by an error or by the drop
\* of its future.
Abandons(c, op) ==
    /\ inflight[c].op = op
    /\ inflight'[c].op = "idle"
    /\ ret'[c].via \in {"Err", "Cancelled"}

\* Nothing is written to the socket of c, queued on c or counted as an unlock.
NoUnlockIssued(c) ==
    /\ outbuf' = outbuf
    /\ unl' = unl
    /\ Len(wire'[c]) <= Len(wire[c])
    /\ \A k \in Keys : CountUnlocks(wire'[c], k) <= CountUnlocks(wire[c], k)

\* C27: when acquire() or try_acquire() fails or is cancelled after its
\* request was written, no guard is built and no unlock is sent or queued to
\* make up for it; when release_now() fails or is cancelled, no further unlock
\* is queued for its guard.
C27_AbandonedCallUnlocksNothing ==
    [][\A c \in Conns :
          /\ Abandons(c, "acquire") \/ Abandons(c, "try_acquire") =>
                /\ guards' = guards
                /\ wrap' = wrap
                /\ acq' = acq
                /\ ret'[c].guard = 0
                /\ NoUnlockIssued(c)
          /\ Abandons(c, "release_now") =>
                /\ NoUnlockIssued(c)
                /\ Len(guards') = Len(guards)
                /\ guards'[inflight[c].guard].issued = guards[inflight[c].guard].issued
                /\ guards'[inflight[c].guard].conn = None]_vars

\* C27 witness: acquire was cancelled after its request reached the server,
\* which holds the lock for the connection; there is no guard and nothing is
\* queued or on its way to release it.
C27_Witness ==
    \E c \in Conns, k \in Keys :
        /\ ret[c].op = "acquire"
        /\ ret[c].via = "Cancelled"
        /\ held[c][k] = 1
        /\ guards = <<>>
        /\ outbuf[c] = <<>>
        /\ wire[c] = <<>>

----------------------------------------------------------------------------
(* Specifications                                                          *)

\* The codecs are pure functions: each is driven from its inputs while the
\* rest of the program stands still.
InitNumeric == InitLock /\ InitNum /\ IdleRange /\ IdleType /\ IdleCodec /\ InitTx
               /\ IdleDrops

SpecNumeric == InitNumeric /\ [][NextNum]_vars

InitRanges == InitLock /\ IdleNum /\ InitRange /\ IdleType /\ IdleCodec /\ InitTx
               /\ IdleDrops

SpecRange == InitRanges /\ [][NextRange]_vars

InitTypes == InitLock /\ IdleNum /\ IdleRange /\ InitType /\ IdleCodec /\ InitTx
               /\ IdleDrops

InitCodecs == InitLock /\ IdleNum /\ IdleRange /\ IdleType /\ InitCodec /\ InitTx
               /\ IdleDrops

SpecCodec == InitCodecs /\ [][NextCodec]_vars

SpecTypes == InitTypes /\ [][NextType]_vars

Init == InitLock /\ IdleNum /\ IdleRange /\ IdleType /\ IdleCodec /\ InitTx
               /\ IdleDrops

Next == NextLock

Spec == Init /\ [][Next]_vars

\* Transactions use the connection alone: no advisory lock is taken meanwhile.
SpecTx == Init /\ [][NextTx]_vars

\* Guards of one lock, each on its own connection, dropped by several threads.
InitConcurrentDrops ==
    InitLock /\ IdleNum /\ IdleRange /\ IdleType /\ IdleCodec /\ InitTx /\ InitDrops

SpecDrops == InitConcurrentDrops /\ [][NextDrops]_vars

====
